---------------------------- MODULE Spec2Model ----------------------------
(***************************************************************************)
(* A model of the distributed streaming runtime: the Coordinator           *)
(* (BootstrapNode), the Auth role, the Content role and the Client, with   *)
(* the shared registry (Node.NodeThreadManager), the outbound queue and    *)
(* write driver (Node.NodeWriteHandler) and the streaming frame codec.     *)
(*                                                                         *)
(* The module holds several specifications over one set of variables; a    *)
(* specification leaves the variables of the other parts unchanged.        *)
(*   SpecLB      concurrent NodeThreadManager.load_balancer calls          *)
(*   SpecCoord   the Coordinator: connections, NODE_REQUEST, spawning      *)
(*   FairCoord   SpecCoord with the request handlers running on            *)
(*   SpecCookie  concurrent logins on the Auth role's cookie manager       *)
(*   SpecContent a Content connection, its client and its Auth links       *)
(*   SpecStream  the frame stream from Content to a client in stream mode  *)
(*   SpecHandshake  the handshake send and accept_wrapper's single recv    *)
(*   SpecConnect    connect_to_node and its attempts                       *)
(*   SpecWrite      a run loop with its queue: push, write, kill, close    *)
(*   SpecShutdown   NodeThreadManager.close against exiting threads        *)
(*   SpecLoad       update_main_load against register / unregister         *)
(*   SpecAuth       Auth connections: logins, disconnects, cookie checks   *)
(*   SpecFlow       the Client's whole flow with its three peers           *)
(*   FairFlow       SpecFlow with every enabled step eventually taken      *)
(*   SpecDispatch   AuthNodeThread.read dispatching on the peer's role     *)
(*   SpecValidation SpecContent with every link to Auth connected          *)
(*   FairValidation SpecValidation with its steps eventually taken         *)
(*   SpecStreamEnd  the frame stream with the sender closing its socket    *)
(*   FairStreamEnd  SpecStreamEnd with its steps eventually taken          *)
(*   SpecDeparture  connection threads leaving after a zero-length read    *)
(*   SpecFields     every read handler against opcodes and field lists     *)
(*   SpecLeave      a connection thread ending by DISCONNECT or close      *)
(*   FairLeave      SpecLeave with its steps eventually taken              *)
(*   SpecCatalog    a Content connection between catalog and stream mode   *)
(*   SpecRace       connection threads handling NODE_REQUEST concurrently  *)
(*   SpecAccept     a listening role's main loop with accept_wrapper       *)
(*   FairAccept     SpecAccept with the listener's steps eventually taken  *)
(*   SpecLink       SpecContent with the connection's registry entry       *)
(*   SpecCoalesce   control messages sent one by one, received together    *)
(***************************************************************************)
EXTENDS Integers, Sequences, FiniteSets, TLC

VARIABLES
    \* ---- Node.NodeThreadManager (one registry)
    node_threads,   \* the list self.node_threads: a sequence of entry ids
    conn_type,      \* entry -> its conn_type
    conn_addr,      \* entry -> <<conn_host, conn_port>>, as they print in a message
    load,           \* entry -> its load
    lock,           \* self.lock: 0 when free, else the thread holding it
    \* ---- threads of the registry's process
    pc,             \* thread -> its position
    lbArg,          \* thread -> the conn_type its load_balancer call asks for
    lbNode,         \* thread -> least_load_node of its call (0: None)
    lbTmp,          \* thread -> the load read by `load += 1`
    lbSnap,         \* history: thread -> loads and list when its call took the lock
    retLog,         \* history: the last two selections made, in order
    load0,          \* history: the loads of the initial state
    \* ---- BootstrapNode: the Coordinator
    out_buffer,     \* connection thread -> its write_handler.out_buffer
    running,        \* connection thread -> its write_handler.running
    messages,       \* connection thread -> the NODE_REQUEST it is handling
    new_node,       \* connection thread -> the node its handler spawned (0: none)
    nodeState,      \* spawned node -> "none", "new", "started", "bound", "connected"
    requests,       \* number of NODE_REQUEST messages read so far
    spawns,         \* history: connection thread -> spawns made for its request
    \* ---- AuthNode: the cookie manager and the Auth connection threads
    client_cookies, \* AuthNodeCookieManager._client_cookies, a list
    cookie_lock,    \* AuthNodeCookieManager._lock: 0 when free, else the holder
    apc,            \* Auth connection thread -> its position
    apeer,          \* Auth connection thread -> conn_type of its peer
    new_cookie,     \* Auth connection thread -> new_cookie of generate_cookie
    auth_out,       \* Auth connection thread -> its write_handler.out_buffer
    logins,         \* number of LOGIN_DATA messages read so far
    issued,         \* history: the cookies of the LOGIN_SUCCESS replies, in order
    \* ---- ContentNode: one ContentNodeThread of a CLIENT peer, with its wires
    client_cookie,  \* self.client_cookie (0: None)
    auth_sock,      \* self.auth_sock: the Auth connection it is the socket to (0: None)
    selector_socks, \* the Auth connections whose sockets self.selector holds
    stream_mode,    \* self.stream_mode
    file_to_stream, \* self.file_to_stream ("None" before a file is chosen)
    content_load,   \* self.load
    content_out,    \* self.write_handler.out_buffer
    content_running,\* self.write_handler.running
    to_client,      \* what was written to the client socket, in order
    to_auth,        \* Auth connection -> messages in flight to it
    from_auth,      \* Auth connection -> messages in flight from it
    presented,      \* history: the cookies the client sent in CLIENT_COOKIE
    client_sent,    \* number of messages the client sent so far
    music_dir,      \* os.listdir(self.path_to_music_files): <<name, extension>> pairs
    \* ---- the stream: Content's frame loop, the socket, ClientNode.handle_stream_mode
    chunks,         \* the chunks waveform.readframes returns, in order
    flip,           \* the byte changed in transit: <<frame, position, delta>> or << >>
    sent,           \* number of frames passed to sendall
    wire,           \* bytes in flight to the client
    rpc,            \* position of the client: "idle", "header", "payload", "left"
    data,           \* the local buffer `data`
    md5_checksum,   \* the digest taken from the header
    msg_size,       \* the length taken from the header
    sink,           \* the payloads passed to stream.write, in order
    client_stream_mode, \* ClientNode.stream_mode
    mismatch,       \* history: the digest comparison failed
    client_out,     \* ClientNode.write_handler.out_buffer
    \* ---- the handshake: connect_to_node on one side, accept_wrapper on the other
    hs_sent,        \* the role, name, host and port the initiator puts in its handshake
    hs_wire,        \* what the initiator sent and the acceptor has not received yet
    hs_later,       \* number of messages the initiator sent after the handshake
    handshake_args, \* accept_wrapper's handshake_args, a list of fields
    hs_conn,        \* conn_type, conn_name, conn_host, conn_port of the new thread
    hs_pc,          \* the acceptor: "listening", "accepted", "failed"
    \* ---- one call of NodeConnectionHandler.connect_to_node
    attempt,            \* number of loop iterations started
    new_sock,           \* the local new_sock: NoSock or the socket of an attempt
    conn_pc,            \* position of the call
    conn_open,          \* sockets created by the call and not closed
    handshake_selector, \* sockets registered with the local handshake_selector
    parent_selector,    \* sockets the call registered with parent_node.selector
    conn_result,        \* the value returned
    \* ---- one connection thread and its NodeWriteHandler
    queue,          \* NodeWriteHandler.out_buffer of one connection thread
    sock_closed,    \* the thread's socket has been closed (fileno() == -1)
    mask,           \* readiness of the socket in the current loop iteration
    run_pc,         \* the thread's run loop: "select", "read", "write", "exited"
                    \* (run returned), "raised" (an exception left run)
    pushed,         \* every message given to push_message, in order
    written,        \* every message given to key.fileobj.send, in order
    wh_running,     \* write_handler.running of the thread
    \* ---- NodeThreadManager.close and the registered connection threads
    thread_pc,      \* each connection thread: "running", "closing", "leaving", "exited"
    sock_open,      \* each connection thread's socket is open
    close_pc,       \* NodeThreadManager.close: "idle", "loop", "returned", "raised"
    close_seen,     \* the entries registered when close took the lock
    \* ---- update_main_load in the main loop of the Auth or Content role
    sum_pc,         \* the role's main loop: "idle", or "loop" inside update_main_load
    sum_idx,        \* position of update_main_load's iteration over node_threads
    new_load,       \* the sum update_main_load has accumulated
    main_load,      \* self.load of the role, the value it last reported
    gone,           \* connection threads that have unregistered
    reported,       \* the last NODE_LOAD_UPDATED|n pushed: n, or NoReport
    seen_sets,      \* the sets of registered entries during the last computation
    seen_loads,     \* the loads each entry had during the last computation
    \* ---- the validations an Auth role has answered
    checks,         \* every AUTH_COOKIE handled: the cookie, whether LOGIN_SUCCESS
                    \* had been issued for it, and the verdict queued
    \* ---- the Client and its three peers along the whole flow
    client_pc,        \* ClientNode.run: "init", "running", "streaming", "ended"
    login_cookie,     \* ClientNode.cookie
    client_socks,     \* the peers whose socket is registered with the Client's selector
    client_queue,     \* the Client's one write_handler.out_buffer
    client_streaming, \* ClientNode.stream_mode
    content_streaming,\* ContentNodeThread.stream_mode of the Client's connection
    to_peer,          \* per peer: what the Client wrote and the peer has not read
    from_peer,        \* per peer: what the peer sent and the Client has not read
    peer_open,        \* per peer: its connection thread is running
    frames_left,      \* frames the Content frame loop has still to send
    frames_played,    \* frames the Client has forwarded to the audio stream
    got,              \* the replies the Client has handled, in order
    \* ---- AuthNodeThread.read as a dispatcher
    auth_sent,      \* number of messages the peers have sent so far
    auth_read,      \* history: the <<conn_type, opcode>> pairs read so far
    \* ---- the end of a stream at the Client
    sender_closed,  \* Content has closed its end of the socket
    zero_read,      \* history: a recv of handle_stream_mode returned no bytes
    control_bytes,  \* history: frame bytes received by read outside stream mode
    csock_state,    \* the Client's Content socket: "registered", "closed" (and
                    \* unregistered), or "lost" when run has ended with an exception
    \* ---- the read handlers' dispatch on opcode and fields
    h_st,           \* each event loop's role state and queue
    h_run,          \* each event loop: "running", "returned", or the exception that left it
    h_count,        \* messages the read handlers have been given
    h_last,         \* the last message given: <<loop, socket it came on, fields>>
    \* ---- a Content connection in catalog and stream mode
    cat_last,       \* the last message handle_client was given, as split fields
    \* ---- the main loop of a listening role and the peers that connect to it
    acc_peer,       \* each peer: "none", "connected", "sent" (its handshake), "closed"
    acc_backlog,    \* connections the listening socket holds, not yet accepted
    acc_pc,         \* the listener's main loop: "select", or "recv" in accept_wrapper
    acc_conn,       \* the peer whose connection accept_wrapper holds (0: none)
    acc_recv,       \* the result of accept_wrapper's last recv
    acc_threads,    \* the peers a connection thread was started for
    \* ---- a Content connection thread and its role's registry
    content_registered, \* the Content connection thread is in its role's node_threads
    \* ---- control messages on one connection from Content to the Client
    co_sent,        \* the control messages Content has sent to the Client, in order
    co_wire,        \* the text sent and not yet returned by a recv of the Client
    co_dispatched   \* the field lists handle_content has acted on, in order

lbVars == <<node_threads, conn_type, conn_addr, load, lock, pc, lbArg, lbNode,
            lbTmp, lbSnap, retLog, load0>>
coordVars == <<out_buffer, running, messages, new_node, nodeState, requests,
               spawns>>
authVars == <<client_cookies, cookie_lock, apc, apeer, new_cookie, auth_out, logins,
              issued>>
contentVars == <<client_cookie, auth_sock, selector_socks, stream_mode, file_to_stream,
                 content_load, content_out, content_running, to_client, to_auth,
                 from_auth, presented, client_sent, music_dir>>
streamVars == <<chunks, flip, sent, wire, rpc, data, md5_checksum, msg_size, sink,
                client_stream_mode, mismatch, client_out>>
hsVars == <<hs_sent, hs_wire, hs_later, handshake_args, hs_conn, hs_pc>>
connVars == <<attempt, new_sock, conn_pc, conn_open, handshake_selector,
              parent_selector, conn_result>>
wrVars == <<queue, sock_closed, mask, run_pc, pushed, written, wh_running>>
shutVars == <<thread_pc, sock_open, close_pc, close_seen>>
sumVars == <<sum_pc, sum_idx, new_load, main_load, gone, reported, seen_sets, seen_loads>>
chkVars == <<checks>>
flowVars == <<client_pc, login_cookie, client_socks, client_queue, client_streaming,
              content_streaming, to_peer, from_peer, peer_open, frames_left,
              frames_played, got>>
dispVars == <<auth_sent, auth_read>>
endVars == <<sender_closed, zero_read, control_bytes, csock_state>>
fldVars == <<h_st, h_run, h_count, h_last>>
catVars == <<cat_last>>
accVars == <<acc_peer, acc_backlog, acc_pc, acc_conn, acc_recv, acc_threads>>
regVars == <<content_registered>>
coVars == <<co_sent, co_wire, co_dispatched>>
extVars == <<hsVars, connVars, wrVars, shutVars, sumVars, chkVars, flowVars, dispVars, endVars, fldVars, catVars, accVars, regVars, coVars>>
lbRest == <<conn_type, conn_addr, load, pc, lbArg, lbNode, lbTmp, lbSnap, retLog, load0>>
lbLocals == <<conn_type, conn_addr, lock, pc, lbArg, lbNode, lbTmp, lbSnap, retLog, load0>>
contentRest == <<client_cookie, auth_sock, selector_socks, stream_mode, file_to_stream,
                 content_load, content_out, content_running, to_client, presented,
                 client_sent, music_dir>>
baseVars == <<lbVars, coordVars, authVars, contentVars, streamVars>>
frameHandshake == <<baseVars, connVars, wrVars, shutVars, sumVars, chkVars, flowVars, dispVars, endVars, fldVars, catVars, accVars, regVars, coVars>>
frameConnect == <<baseVars, hs_later, handshake_args, hs_conn, hs_pc, wrVars, shutVars, sumVars, chkVars, flowVars, dispVars, endVars, fldVars, catVars, accVars, regVars, coVars>>
frameWrite == <<baseVars, hsVars, connVars, shutVars, sumVars, chkVars, flowVars, dispVars, endVars, fldVars, catVars, accVars, regVars, coVars>>
frameShutdown == <<lbRest, coordVars, authVars, contentVars, streamVars, hsVars, connVars, wrVars, sumVars, chkVars, flowVars, dispVars, endVars, fldVars, catVars, accVars, regVars, coVars>>
frameLoad == <<lbLocals, coordVars, authVars, contentVars, streamVars, hsVars, connVars, wrVars, shutVars, chkVars, flowVars, dispVars, endVars, fldVars, catVars, accVars, regVars, coVars>>
frameAuth == <<lbVars, coordVars, streamVars, contentRest, hsVars, connVars, wrVars, shutVars, sumVars, flowVars, dispVars, endVars, fldVars, catVars, accVars, regVars, coVars>>
frameFlow == <<baseVars, hsVars, connVars, wrVars, shutVars, sumVars, chkVars, dispVars, endVars, fldVars, catVars, accVars, regVars, coVars>>
frameDispatch == <<lbVars, coordVars, streamVars, contentRest, hsVars, connVars, wrVars, shutVars, sumVars, chkVars, flowVars, endVars, fldVars, catVars, accVars, regVars, coVars>>
frameStreamEnd == <<lbVars, coordVars, authVars, contentVars, hsVars, connVars, wrVars, shutVars, sumVars, chkVars, flowVars, dispVars, fldVars, catVars, accVars, regVars, coVars>>
frameFields == <<baseVars, hsVars, connVars, wrVars, shutVars, sumVars, chkVars, flowVars, dispVars, endVars, catVars, accVars, regVars, coVars>>
frameLeave == <<lbRest, lock, coordVars, authVars, contentVars, streamVars, hsVars, connVars, shutVars, sumVars, chkVars, flowVars, dispVars, endVars, fldVars, catVars, accVars, regVars, coVars>>
frameCatalog == <<lbVars, coordVars, streamVars, hsVars, connVars, wrVars, shutVars, sumVars, chkVars, flowVars, dispVars, endVars, fldVars, accVars, regVars, coVars>>
frameAccept == <<baseVars, hsVars, connVars, wrVars, shutVars, sumVars, chkVars, flowVars, dispVars, endVars, fldVars, catVars, regVars, coVars>>
frameLink == <<lbVars, coordVars, streamVars, hsVars, connVars, wrVars, shutVars, sumVars, chkVars, flowVars, dispVars, endVars, fldVars, catVars, accVars, coVars>>
frameCoalesce == <<baseVars, hsVars, connVars, wrVars, shutVars, sumVars, chkVars, flowVars, dispVars, endVars, fldVars, catVars, accVars, regVars>>
restVars == <<contentVars, streamVars, extVars>>
otherVars == <<authVars, restVars>>

vars == <<lbVars, coordVars, otherVars>>

-----------------------------------------------------------------------------
(* Bounds of the model *)
NumEntries == 2      \* entries of the registry in SpecLB
NumCallers == 2      \* threads calling load_balancer in SpecLB
MaxInitLoad == 1     \* largest load an entry starts with in SpecLB
NumAuthThreads == 2  \* connection threads of the Auth role
MaxLogins == 2       \* LOGIN_DATA messages the Auth role reads
MaxLinks == 1        \* connections the Content thread opens to Auth
MaxClientMsgs == 2   \* messages the client sends on its Content connection
MaxChunks == 2       \* chunks of the file streamed
MaxChunkLen == 2     \* bytes of a chunk
MaxLater == 1        \* messages the initiator sends after its handshake
MaxPushes == 3       \* messages a connection thread pushes onto its queue
NumThreads == 3      \* connection threads registered when close is called
MaxChecks == 1       \* AUTH_COOKIE messages the Content peers send to Auth
NumFrames == 2       \* frames of the file the Client asks for
MaxDeliveries == 3   \* messages given to the read handlers
MaxNames == 1        \* file names the user types at the Client's prompt
EndFrames == 2       \* frames of the file in SpecStreamEnd
EndChunkLen == 1     \* bytes of each of its chunks
MaxAuthMsgs == 3     \* messages the peers of the Auth connections send
MaxConns == 2        \* connections the Coordinator accepts
MaxRequests == 1     \* NODE_REQUEST messages the Coordinator reads
MaxSpawns == 2       \* node objects the Coordinator's handlers can build
NumPeers == 2        \* peers that connect to a listening role
MaxSends == 3        \* control messages sent on the connection

-----------------------------------------------------------------------------
(* Values *)
NoneV == "None"                      \* Python's None, as str() prints it
NoNode == 0                          \* load_balancer's None
ServiceRoles == {"AUTH", "CONTENT"}

RECURSIVE SumOver(_, _)
SumOver(f, S) ==
    IF S = {} THEN 0
    ELSE LET x == CHOOSE y \in S : TRUE IN f[x] + SumOver(f, S \ {x})

Range(s) == {s[i] : i \in 1..Len(s)}

\* The history of the selections: the last two are kept, and none in a
\* specification that starts with the history switched off.
NotKept == <<[caller |-> 0, role |-> "not kept", node |-> 0, minimal |-> TRUE, ties |-> 0]>>
LastTwo(s) == IF Len(s) <= 2 THEN s ELSE SubSeq(s, Len(s) - 1, Len(s))

-----------------------------------------------------------------------------
(* Node.NodeThreadManager *)

Logged(rec) == IF retLog = NotKept THEN retLog ELSE LastTwo(Append(retLog, rec))

\* get_nodes_by_type: the entries of conn_type ct, in list order.
get_nodes_by_type(ct) ==
    SelectSeq(node_threads, LAMBDA n : conn_type[n] = ct)

\* min(nodes, key=load): the first entry of the list with the least load.
MinByLoad(nodes) ==
    LET i == CHOOSE k \in 1..Len(nodes) :
                 /\ \A j \in 1..Len(nodes) : load[nodes[k]] <= load[nodes[j]]
                 /\ \A j \in 1..(k - 1) : load[nodes[j]] > load[nodes[k]]
    IN nodes[i]

\* A registry without mutual exclusion: the lock is always granted.
LockIgnored == TRUE
\* `with self.lock`: the lock can be taken when no thread holds it.
LockAvailable == lock = 0

\* A selection that leaves the load as it was.
IncrementedSame(v) == v
\* The value `least_load_node.load += 1` stores.
Incremented(v) == v + 1

\* load_balancer, `with self.lock:` entered.
LbAcquire(t) ==
    /\ pc[t] = "lb_call"
    /\ LockAvailable
    /\ lock' = t
    /\ pc' = [pc EXCEPT ![t] = "lb_select"]
    /\ lbSnap' = [lbSnap EXCEPT ![t] = [load |-> load, reg |-> node_threads]]
    /\ UNCHANGED <<node_threads, conn_type, conn_addr, load, lbArg, lbNode, lbTmp,
                   retLog, load0, coordVars, otherVars>>

\* nodes = get_nodes_by_type(conn_type); least_load_node = min(...) or None.
LbSelect(t) ==
    /\ pc[t] = "lb_select"
    /\ LET nodes == get_nodes_by_type(lbArg[t]) IN
         IF nodes # << >>
         THEN LET n == MinByLoad(nodes) IN
              /\ lbNode' = [lbNode EXCEPT ![t] = n]
              /\ pc' = [pc EXCEPT ![t] = "lb_read"]
              /\ retLog' = Logged(
                     [caller |-> t, role |-> lbArg[t], node |-> n,
                      minimal |-> \A j \in 1..Len(nodes) : load[n] <= load[nodes[j]],
                      ties |-> Cardinality({j \in 1..Len(nodes) :
                                               load[nodes[j]] = load[n]})])
         ELSE /\ lbNode' = [lbNode EXCEPT ![t] = NoNode]
              /\ pc' = [pc EXCEPT ![t] = "lb_release"]
              /\ UNCHANGED retLog
    /\ UNCHANGED <<node_threads, conn_type, conn_addr, load, lock, lbArg, lbTmp, lbSnap,
                   load0, coordVars, otherVars>>

\* least_load_node.load += 1, the read half.
LbRead(t) ==
    /\ pc[t] = "lb_read"
    /\ lbTmp' = [lbTmp EXCEPT ![t] = load[lbNode[t]]]
    /\ pc' = [pc EXCEPT ![t] = "lb_write"]
    /\ UNCHANGED <<node_threads, conn_type, conn_addr, load, lock, lbArg, lbNode,
                   lbSnap, retLog, load0, coordVars, otherVars>>

\* least_load_node.load += 1, the write half.
LbWrite(t) ==
    /\ pc[t] = "lb_write"
    /\ load' = [load EXCEPT ![lbNode[t]] = Incremented(lbTmp[t])]
    /\ pc' = [pc EXCEPT ![t] = "lb_release"]
    /\ UNCHANGED <<node_threads, conn_type, conn_addr, lock, lbArg, lbNode, lbTmp,
                   lbSnap, retLog, load0, coordVars, otherVars>>

\* return: the with-block is left and the lock released.
LbRelease(t) ==
    /\ pc[t] = "lb_release"
    /\ lock' = IF lock = t THEN 0 ELSE lock
    /\ pc' = [pc EXCEPT ![t] = "lb_done"]
    /\ lbSnap' = [lbSnap EXCEPT ![t] = << >>]
    /\ lbTmp' = [lbTmp EXCEPT ![t] = 0]
    /\ UNCHANGED <<node_threads, conn_type, conn_addr, load, lbArg, lbNode,
                   retLog, load0, coordVars, otherVars>>

-----------------------------------------------------------------------------
(* The parts a specification does not use stay at these values. *)
CoordUnused ==
    /\ out_buffer = << >>
    /\ running = << >>
    /\ messages = << >>
    /\ new_node = << >>
    /\ nodeState = << >>
    /\ requests = 0
    /\ spawns = << >>

AuthUnused ==
    /\ client_cookies = << >>
    /\ cookie_lock = 0
    /\ apc = << >>
    /\ apeer = << >>
    /\ new_cookie = << >>
    /\ auth_out = << >>
    /\ logins = 0
    /\ issued = << >>

ContentUnused ==
    /\ client_cookie = 0
    /\ auth_sock = 0
    /\ selector_socks = {}
    /\ stream_mode = FALSE
    /\ file_to_stream = "None"
    /\ content_load = 0
    /\ content_out = << >>
    /\ content_running = FALSE
    /\ to_client = << >>
    /\ to_auth = << >>
    /\ from_auth = << >>
    /\ presented = {}
    /\ client_sent = 0
    /\ music_dir = {}

StreamUnused ==
    /\ chunks = << >>
    /\ flip = << >>
    /\ sent = 0
    /\ wire = << >>
    /\ rpc = "idle"
    /\ data = << >>
    /\ md5_checksum = << >>
    /\ msg_size = 0
    /\ sink = << >>
    /\ client_stream_mode = FALSE
    /\ mismatch = FALSE
    /\ client_out = << >>

HsUnused ==
    /\ hs_sent = << >>
    /\ hs_wire = << >>
    /\ hs_later = 0
    /\ handshake_args = << >>
    /\ hs_conn = << >>
    /\ hs_pc = "listening"

LbUnused ==
    /\ node_threads = << >>
    /\ conn_type = << >>
    /\ conn_addr = << >>
    /\ load = << >>
    /\ lock = 0
    /\ pc = << >>
    /\ lbArg = << >>
    /\ lbNode = << >>
    /\ lbTmp = << >>
    /\ lbSnap = << >>
    /\ retLog = NotKept
    /\ load0 = << >>

NoSock == 0

ConnUnused ==
    /\ attempt = 0
    /\ new_sock = NoSock
    /\ conn_pc = "for"
    /\ conn_open = {}
    /\ handshake_selector = {}
    /\ parent_selector = {}
    /\ conn_result = NoSock

WrUnused ==
    /\ queue = << >>
    /\ sock_closed = FALSE
    /\ mask = {}
    /\ run_pc = "select"
    /\ pushed = << >>
    /\ written = << >>
    /\ wh_running = TRUE

ShutUnused ==
    /\ thread_pc = << >>
    /\ sock_open = << >>
    /\ close_pc = "idle"
    /\ close_seen = {}

SumUnused ==
    /\ sum_pc = "idle"
    /\ sum_idx = 0
    /\ new_load = 0
    /\ main_load = 0
    /\ gone = {}
    /\ reported = 0 - 1
    /\ seen_sets = {}
    /\ seen_loads = << >>

ChkUnused ==
    /\ checks = << >>

FlowUnused ==
    /\ client_pc = "init"
    /\ login_cookie = "None"
    /\ client_socks = {}
    /\ client_queue = << >>
    /\ client_streaming = FALSE
    /\ content_streaming = FALSE
    /\ to_peer = << >>
    /\ from_peer = << >>
    /\ peer_open = << >>
    /\ frames_left = 0
    /\ frames_played = 0
    /\ got = << >>

DispUnused ==
    /\ auth_sent = 0
    /\ auth_read = {}

EndUnused ==
    /\ sender_closed = FALSE
    /\ zero_read = FALSE
    /\ control_bytes = 0
    /\ csock_state = "registered"

FldUnused ==
    /\ h_st = << >>
    /\ h_run = << >>
    /\ h_count = 0
    /\ h_last = << >>

CatUnused ==
    /\ cat_last = << >>

AccUnused ==
    /\ acc_peer = << >>
    /\ acc_backlog = << >>
    /\ acc_pc = "select"
    /\ acc_conn = 0
    /\ acc_recv = "none"
    /\ acc_threads = {}

RegUnused ==
    /\ content_registered = FALSE

CoUnused ==
    /\ co_sent = << >>
    /\ co_wire = << >>
    /\ co_dispatched = << >>

ExtUnused == HsUnused /\ ConnUnused /\ WrUnused /\ ShutUnused /\ SumUnused /\ ChkUnused /\ FlowUnused /\ DispUnused /\ EndUnused /\ FldUnused /\ CatUnused /\ AccUnused /\ RegUnused /\ CoUnused

RestUnused == ContentUnused /\ StreamUnused /\ ExtUnused

BaseUnused == LbUnused /\ CoordUnused /\ AuthUnused /\ ContentUnused /\ StreamUnused
IdleHandshake == BaseUnused /\ ConnUnused /\ WrUnused /\ ShutUnused /\ SumUnused /\ ChkUnused /\ FlowUnused /\ DispUnused /\ EndUnused /\ FldUnused /\ CatUnused /\ AccUnused /\ RegUnused /\ CoUnused
IdleConnect == BaseUnused /\ WrUnused /\ ShutUnused /\ SumUnused /\ ChkUnused /\ FlowUnused /\ DispUnused /\ EndUnused /\ FldUnused /\ CatUnused /\ AccUnused /\ RegUnused /\ CoUnused
IdleWrite == BaseUnused /\ HsUnused /\ ConnUnused /\ ShutUnused /\ SumUnused /\ ChkUnused /\ FlowUnused /\ DispUnused /\ EndUnused /\ FldUnused /\ CatUnused /\ AccUnused /\ RegUnused /\ CoUnused
IdleShutdown == CoordUnused /\ AuthUnused /\ ContentUnused /\ StreamUnused /\ HsUnused /\ ConnUnused /\ WrUnused /\ SumUnused /\ ChkUnused /\ FlowUnused /\ DispUnused /\ EndUnused /\ FldUnused /\ CatUnused /\ AccUnused /\ RegUnused /\ CoUnused
IdleLoad == CoordUnused /\ AuthUnused /\ ContentUnused /\ StreamUnused /\ HsUnused /\ ConnUnused /\ WrUnused /\ ShutUnused /\ ChkUnused /\ FlowUnused /\ DispUnused /\ EndUnused /\ FldUnused /\ CatUnused /\ AccUnused /\ RegUnused /\ CoUnused
IdleAuth == LbUnused /\ CoordUnused /\ StreamUnused /\ HsUnused /\ ConnUnused /\ WrUnused /\ ShutUnused /\ SumUnused /\ FlowUnused /\ DispUnused /\ EndUnused /\ FldUnused /\ CatUnused /\ AccUnused /\ RegUnused /\ CoUnused
IdleFlow == BaseUnused /\ HsUnused /\ ConnUnused /\ WrUnused /\ ShutUnused /\ SumUnused /\ ChkUnused /\ DispUnused /\ EndUnused /\ FldUnused /\ CatUnused /\ AccUnused /\ RegUnused /\ CoUnused
IdleDispatch == LbUnused /\ CoordUnused /\ StreamUnused /\ HsUnused /\ ConnUnused /\ WrUnused /\ ShutUnused /\ SumUnused /\ ChkUnused /\ FlowUnused /\ EndUnused /\ FldUnused /\ CatUnused /\ AccUnused /\ RegUnused /\ CoUnused
IdleStreamEnd == LbUnused /\ CoordUnused /\ AuthUnused /\ ContentUnused /\ HsUnused /\ ConnUnused /\ WrUnused /\ ShutUnused /\ SumUnused /\ ChkUnused /\ FlowUnused /\ DispUnused /\ FldUnused /\ CatUnused /\ AccUnused /\ RegUnused /\ CoUnused
IdleFields == BaseUnused /\ HsUnused /\ ConnUnused /\ WrUnused /\ ShutUnused /\ SumUnused /\ ChkUnused /\ FlowUnused /\ DispUnused /\ EndUnused /\ CatUnused /\ AccUnused /\ RegUnused /\ CoUnused
IdleLeave == CoordUnused /\ AuthUnused /\ ContentUnused /\ StreamUnused /\ HsUnused /\ ConnUnused /\ ShutUnused /\ SumUnused /\ ChkUnused /\ FlowUnused /\ DispUnused /\ EndUnused /\ FldUnused /\ CatUnused /\ AccUnused /\ RegUnused /\ CoUnused
IdleCatalog == LbUnused /\ CoordUnused /\ StreamUnused /\ HsUnused /\ ConnUnused /\ WrUnused /\ ShutUnused /\ SumUnused /\ ChkUnused /\ FlowUnused /\ DispUnused /\ EndUnused /\ FldUnused /\ AccUnused /\ RegUnused /\ CoUnused
IdleAccept == BaseUnused /\ HsUnused /\ ConnUnused /\ WrUnused /\ ShutUnused /\ SumUnused /\ ChkUnused /\ FlowUnused /\ DispUnused /\ EndUnused /\ FldUnused /\ CatUnused /\ RegUnused /\ CoUnused
IdleLink == LbUnused /\ CoordUnused /\ StreamUnused /\ HsUnused /\ ConnUnused /\ WrUnused /\ ShutUnused /\ SumUnused /\ ChkUnused /\ FlowUnused /\ DispUnused /\ EndUnused /\ FldUnused /\ CatUnused /\ AccUnused /\ CoUnused
IdleCoalesce == BaseUnused /\ HsUnused /\ ConnUnused /\ WrUnused /\ ShutUnused /\ SumUnused /\ ChkUnused /\ FlowUnused /\ DispUnused /\ EndUnused /\ FldUnused /\ CatUnused /\ AccUnused /\ RegUnused

OtherUnused == AuthUnused /\ RestUnused

-----------------------------------------------------------------------------
(* SpecLB: NumCallers threads each call load_balancer once, concurrently,  *)
(* on a registry of NumEntries entries; load has no other writer.          *)

LBEntries == 1..NumEntries
LBCallers == 1..NumCallers

InitLB ==
    /\ node_threads = [i \in LBEntries |-> i]
    /\ conn_type \in [LBEntries -> ServiceRoles]
    /\ conn_addr = [e \in LBEntries |-> <<NoneV, NoneV>>]
    /\ load \in [LBEntries -> 0..MaxInitLoad]
    /\ lock = 0
    /\ pc = [t \in LBCallers |-> "lb_call"]
    /\ lbArg \in [LBCallers -> ServiceRoles]
    /\ lbNode = [t \in LBCallers |-> NoNode]
    /\ lbTmp = [t \in LBCallers |-> 0]
    /\ lbSnap = [t \in LBCallers |-> << >>]
    /\ retLog = << >>
    /\ load0 = load
    /\ CoordUnused
    /\ OtherUnused

NextLB ==
    \E t \in LBCallers :
        \/ LbAcquire(t)
        \/ LbSelect(t)
        \/ LbRead(t)
        \/ LbWrite(t)
        \/ LbRelease(t)

SpecLB == InitLB /\ [][NextLB]_vars

\* The threads inside load_balancer's with-block.
InLoadBalancer == {t \in DOMAIN pc : pc[t] \in {"lb_select", "lb_read", "lb_write", "lb_release"}}

\* The calls for conn_type r whose increment has been stored.
Incremented_calls(r) ==
    {t \in DOMAIN pc : /\ pc[t] \in {"lb_release", "lb_done"}
                       /\ lbNode[t] # NoNode
                       /\ lbArg[t] = r}

\* C4: for any interleaving of k concurrent load_balancer calls (no other
\* writer of load), every call selects an entry whose load is minimal among
\* the entries of its role at the instant of selection, at most one call is
\* between its selection and its increment, and the loads of a role's
\* entries sum to the initial sum plus one per finished selection: no
\* increment is lost.
C4_AtomicSelection ==
    /\ \A i \in 1..Len(retLog) : retLog[i].minimal
    /\ Cardinality(InLoadBalancer) <= 1
    /\ \A r \in ServiceRoles :
         LET es == {e \in Range(node_threads) : conn_type[e] = r} IN
         SumOver(load, es) = SumOver(load0, es) + Cardinality(Incremented_calls(r))

\* C4's case: every caller has returned and two of them selected among the
\* same role's entries.
C4_Witness ==
    /\ \A t \in DOMAIN pc : pc[t] = "lb_done"
    /\ Len(retLog) >= 2
    /\ retLog[1].role = retLog[2].role

\* C5: when load_balancer returns an entry, that entry's load is one more
\* than when the call began, every other load and the list are as they
\* were (a call returning None changes nothing); and when two or more
\* entries were tied at the minimum, the next call returns another entry.
C5_SelectionIncrements ==
    /\ \A t \in DOMAIN pc :
         pc[t] = "lb_release" =>
            /\ node_threads = lbSnap[t].reg
            /\ load = IF lbNode[t] = NoNode
                      THEN lbSnap[t].load
                      ELSE [lbSnap[t].load EXCEPT ![lbNode[t]] = @ + 1]
    /\ \A i \in 1..(Len(retLog) - 1) :
         retLog[i].ties >= 2 => retLog[i + 1].node # retLog[i].node

\* C5's case: the second of two consecutive calls on a role whose entries
\* were tied at the minimum is returning.
C5_Witness ==
    /\ Len(retLog) = 2
    /\ retLog[1].ties >= 2
    /\ retLog[1].role = retLog[2].role
    /\ \E t \in DOMAIN pc : pc[t] = "lb_release" /\ lbNode[t] = retLog[2].node

-----------------------------------------------------------------------------
(* BootstrapNode: the Coordinator.  Its registry holds one entry per       *)
(* accepted connection (a BootstrapNodeThread) and, besides, every node    *)
(* object a handler spawned.                                               *)

ConnIds == 1..MaxConns
NodeIds == (MaxConns + 1)..(MaxConns + MaxSpawns)
CoordIds == ConnIds \cup NodeIds
WantedRoles == {"AUTH", "CONTENT", "PRIME"}   \* PRIME: a role that is not spawned
NodeHost == "10.0.0.1"
ReportedLoads == {0, 2}      \* the loads a NODE_LOAD_UPDATED reports here

\* The lowest id of S, the next thread or node object to be created (0: none left).
Lowest(S) == IF S = {} THEN 0 ELSE CHOOSE x \in S : \A y \in S : x <= y

\* NodeWriteHandler.push_message on thread t's queue.
push_message(t, m) ==
    out_buffer' = [out_buffer EXCEPT ![t] = Append(@, m)]

\* The reply of handle_node_request for the entry node.
NodeFindSuccess(msgs, node) ==
    <<"NODE_FIND_SUCCESS", msgs[2], msgs[3], conn_addr[node][1], conn_addr[node][2]>>

\* A handler that takes every role as one it can spawn.
SpawnsAnyRole(role) == TRUE
\* The roles handle_node_request can spawn.
Spawnable(role) == role \in {"AUTH", "CONTENT"}

\* A register that does not add the node.
RegisterNothing(node) == node_threads
\* NodeThreadManager.register(node): appended under the lock.
Registered(node) == Append(node_threads, node)

\* BootstrapNode.run accepts a connection: accept_wrapper reads the handshake
\* ct|name|host|port and BootstrapNodeThread.__init__ registers the thread.
Accept(t, ct, addr) ==
    /\ pc[t] = "none"
    /\ LockAvailable
    /\ conn_type' = [conn_type EXCEPT ![t] = ct]
    /\ conn_addr' = [conn_addr EXCEPT ![t] = addr]
    /\ load' = [load EXCEPT ![t] = 1]
    /\ node_threads' = Registered(t)
    /\ pc' = [pc EXCEPT ![t] = "idle"]
    /\ running' = [running EXCEPT ![t] = TRUE]
    /\ UNCHANGED <<lock, lbArg, lbNode, lbTmp, lbSnap, retLog, load0>>
    /\ UNCHANGED <<out_buffer, messages, new_node, requests, spawns>>

\* A client connects: ClientNode's handshake carries node_host = node_port = None.
ClientConnect(t) ==
    /\ Accept(t, "CLIENT", <<NoneV, NoneV>>)
    /\ UNCHANGED <<nodeState, otherVars>>

\* AuthNode.run / ContentNode.run of a spawned node, after the bind:
\* connect_to_node(prime) with the handshake role|name|node_host|node_port.
NodeConnect(n, t) ==
    /\ nodeState[n] = "bound"
    /\ Accept(t, conn_type[n], conn_addr[n])
    /\ nodeState' = [nodeState EXCEPT ![n] = "connected"]
    /\ UNCHANGED otherVars

\* AuthNode.run / ContentNode.run of a spawned node: configure_dynamic_server
\* binds, then conn_host and conn_port are set.
NodeBind(n) ==
    /\ nodeState[n] = "started"
    /\ nodeState' = [nodeState EXCEPT ![n] = "bound"]
    /\ conn_addr' = [conn_addr EXCEPT ![n] = <<NodeHost, ToString(n)>>]
    /\ UNCHANGED <<node_threads, conn_type, load, lock, pc, lbArg, lbNode, lbTmp,
                   lbSnap, retLog, load0>>
    /\ UNCHANGED <<out_buffer, running, messages, new_node, requests, spawns,
                   otherVars>>

\* BootstrapNodeThread.read, NODE_LOAD_UPDATED|v: self.load = int(v).
ReadLoadUpdated(t, v) ==
    /\ pc[t] = "idle" /\ running[t]
    /\ conn_type[t] \in ServiceRoles
    /\ load' = [load EXCEPT ![t] = v]
    /\ UNCHANGED <<node_threads, conn_type, conn_addr, lock, pc, lbArg, lbNode,
                   lbTmp, lbSnap, retLog, load0, coordVars, otherVars>>

\* BootstrapNodeThread.read, NODE_REQUEST|req|want: handle_node_request is
\* entered and calls load_balancer(want).
ReadNodeRequest(t, req, want) ==
    /\ pc[t] = "idle" /\ running[t]
    /\ requests < MaxRequests
    /\ requests' = requests + 1
    /\ messages' = [messages EXCEPT ![t] = <<"NODE_REQUEST", req, want>>]
    /\ lbArg' = [lbArg EXCEPT ![t] = want]
    /\ pc' = [pc EXCEPT ![t] = "lb_call"]
    /\ spawns' = [spawns EXCEPT ![t] = 0]
    /\ new_node' = [new_node EXCEPT ![t] = 0]
    /\ UNCHANGED <<node_threads, conn_type, conn_addr, load, lock, lbNode, lbTmp,
                   lbSnap, retLog, load0>>
    /\ UNCHANGED <<out_buffer, running, nodeState, otherVars>>

\* handle_node_request, node is not None: the reply is pushed and the
\* handler returns (its locals are gone).
NodeFound(t) ==
    /\ pc[t] = "lb_done"
    /\ lbNode[t] # NoNode
    /\ push_message(t, NodeFindSuccess(messages[t], lbNode[t]))
    /\ pc' = [pc EXCEPT ![t] = "idle"]
    /\ lbArg' = [lbArg EXCEPT ![t] = NoneV]
    /\ lbNode' = [lbNode EXCEPT ![t] = NoNode]
    /\ messages' = [messages EXCEPT ![t] = << >>]
    /\ new_node' = [new_node EXCEPT ![t] = 0]
    /\ spawns' = [spawns EXCEPT ![t] = 0]
    /\ UNCHANGED <<node_threads, conn_type, conn_addr, load, lock, lbTmp, lbSnap,
                   retLog, load0>>
    /\ UNCHANGED <<running, nodeState, requests, otherVars>>

\* handle_node_request, node is None and the role can be spawned: the new
\* node object is built and registered.
SpawnRegister(t) ==
    /\ pc[t] = "lb_done"
    /\ lbNode[t] = NoNode
    /\ Spawnable(messages[t][3])
    /\ LockAvailable
    /\ \E n \in NodeIds :
        /\ n = Lowest({m \in NodeIds : nodeState[m] = "none"})
        /\ conn_type' = [conn_type EXCEPT ![n] = messages[t][3]]
        /\ conn_addr' = [conn_addr EXCEPT ![n] = <<NoneV, NoneV>>]
        /\ load' = [load EXCEPT ![n] = 0]
        /\ node_threads' = Registered(n)
        /\ nodeState' = [nodeState EXCEPT ![n] = "new"]
        /\ new_node' = [new_node EXCEPT ![t] = n]
    /\ spawns' = [spawns EXCEPT ![t] = @ + 1]
    /\ pc' = [pc EXCEPT ![t] = "start"]
    /\ UNCHANGED <<lock, lbArg, lbNode, lbTmp, lbSnap, retLog, load0>>
    /\ UNCHANGED <<out_buffer, running, messages, requests, otherVars>>

\* handle_node_request: new_node.start(); time.sleep(0.1); the loop then
\* calls load_balancer again.
SpawnStart(t) ==
    /\ pc[t] = "start"
    /\ nodeState' = [nodeState EXCEPT ![new_node[t]] = "started"]
    /\ pc' = [pc EXCEPT ![t] = "lb_call"]
    /\ UNCHANGED <<node_threads, conn_type, conn_addr, load, lock, lbArg, lbNode,
                   lbTmp, lbSnap, retLog, load0>>
    /\ UNCHANGED <<out_buffer, running, messages, new_node, requests, spawns,
                   otherVars>>

\* handle_node_request, node is None and the role cannot be spawned: return.
DropRequest(t) ==
    /\ pc[t] = "lb_done"
    /\ lbNode[t] = NoNode
    /\ ~Spawnable(messages[t][3])
    /\ pc' = [pc EXCEPT ![t] = "idle"]
    /\ lbArg' = [lbArg EXCEPT ![t] = NoneV]
    /\ messages' = [messages EXCEPT ![t] = << >>]
    /\ UNCHANGED <<node_threads, conn_type, conn_addr, load, lock, lbNode, lbTmp,
                   lbSnap, retLog, load0>>
    /\ UNCHANGED <<out_buffer, running, new_node, nodeState, requests, spawns,
                   otherVars>>

\* BootstrapNodeThread.read, zero bytes: the thread unregisters itself,
\* closes the socket, and its loop ends.
ReadZero(t) ==
    /\ pc[t] = "idle" /\ running[t]
    /\ LockAvailable
    /\ node_threads' = SelectSeq(node_threads, LAMBDA e : e # t)
    /\ pc' = [pc EXCEPT ![t] = "closed"]
    /\ UNCHANGED <<conn_type, conn_addr, load, lock, lbArg, lbNode, lbTmp, lbSnap,
                   retLog, load0, coordVars, otherVars>>

InitCoord ==
    /\ node_threads = << >>
    /\ conn_type = [e \in CoordIds |-> NoneV]
    /\ conn_addr = [e \in CoordIds |-> <<NoneV, NoneV>>]
    /\ load = [e \in CoordIds |-> 0]
    /\ lock = 0
    /\ pc = [t \in ConnIds |-> "none"]
    /\ lbArg = [t \in ConnIds |-> NoneV]
    /\ lbNode = [t \in ConnIds |-> NoNode]
    /\ lbTmp = [t \in ConnIds |-> 0]
    /\ lbSnap = [t \in ConnIds |-> << >>]
    /\ retLog = NotKept
    /\ load0 = load
    /\ out_buffer = [t \in ConnIds |-> << >>]
    /\ running = [t \in ConnIds |-> FALSE]
    /\ messages = [t \in ConnIds |-> << >>]
    /\ new_node = [t \in ConnIds |-> 0]
    /\ nodeState = [n \in NodeIds |-> "none"]
    /\ requests = 0
    /\ spawns = [t \in ConnIds |-> 0]
    /\ OtherUnused

\* The steps of a connection thread inside handle_node_request.
HandlerStep(t) ==
    \/ LbAcquire(t)
    \/ LbSelect(t)
    \/ LbRead(t)
    \/ LbWrite(t)
    \/ LbRelease(t)
    \/ NodeFound(t)
    \/ SpawnRegister(t)
    \/ SpawnStart(t)
    \/ DropRequest(t)

NextCoord ==
    \/ \E t \in ConnIds :
        \/ t = Lowest({u \in ConnIds : pc[u] = "none"}) /\ ClientConnect(t)
        \/ \E n \in NodeIds :
              t = Lowest({u \in ConnIds : pc[u] = "none"}) /\ NodeConnect(n, t)
        \/ \E v \in ReportedLoads : ReadLoadUpdated(t, v)
        \/ \E want \in WantedRoles :
              conn_type[t] \in {"CLIENT", "CONTENT"}
              /\ ReadNodeRequest(t, conn_type[t], want)
        \/ HandlerStep(t)
        \/ ReadZero(t)
    \/ \E n \in NodeIds : NodeBind(n)

SpecCoord == InitCoord /\ [][NextCoord]_vars

\* A thread that runs keeps running: every step of a handler is taken.
FairCoord == SpecCoord /\ \A t \in ConnIds : WF_vars(HandlerStep(t))

\* The requests a handler holds while it selects.
Handling(t) == pc[t] \in {"lb_call", "lb_select", "lb_read", "lb_write", "lb_release",
                          "lb_done", "start"}

\* C6: a NODE_REQUEST for AUTH or CONTENT that finds no entry of the wanted
\* role leads to a non-null selection and a queued NODE_FIND_SUCCESS, and no
\* handler spawns more than once for its request, so that the nodes spawned
\* never outnumber the requests read.
C6_SpawnOnMissTerminates ==
    /\ [](\A t \in ConnIds : spawns[t] <= 1)
    /\ [](Cardinality({n \in NodeIds : nodeState[n] # "none"}) <= requests)
    /\ \A t \in ConnIds :
         (pc[t] = "lb_done" /\ lbNode[t] = NoNode /\ messages[t][3] \in {"AUTH", "CONTENT"})
            ~> (/\ pc[t] = "idle"
                /\ out_buffer[t] # << >>
                /\ out_buffer[t][Len(out_buffer[t])][1] = "NODE_FIND_SUCCESS")

\* C6's case: a handler that found no entry and spawned once has now
\* selected the node it spawned.
C6_Witness ==
    \E t \in ConnIds :
        /\ pc[t] = "lb_done"
        /\ spawns[t] = 1
        /\ lbNode[t] # NoNode
        /\ lbNode[t] = new_node[t]

\* A step of thread t in which its handler is dropping a request: the role
\* wanted is neither AUTH nor CONTENT and the selection finds, or found, no
\* entry of that role.
DroppingStep(t) ==
    /\ pc'[t] # pc[t]
    /\ pc[t] \in {"lb_select", "lb_release", "lb_done"}
    /\ messages[t][3] \notin {"AUTH", "CONTENT"}
    /\ pc[t] = "lb_select" => get_nodes_by_type(messages[t][3]) = << >>
    /\ pc[t] \in {"lb_release", "lb_done"} => lbNode[t] = NoNode

\* C7: a NODE_REQUEST whose wanted role is neither AUTH nor CONTENT and has
\* no registered entry is dropped: the handler queues nothing, spawns
\* nothing, leaves the registry and every load as they are, and returns to
\* its loop, which keeps running.
C7_UnknownRoleDropped ==
    [][\A t \in ConnIds :
         DroppingStep(t) =>
            /\ out_buffer' = out_buffer
            /\ nodeState' = nodeState
            /\ node_threads' = node_threads
            /\ load' = load
            /\ conn_type' = conn_type
            /\ running'[t]
            /\ pc[t] = "lb_done" => pc'[t] = "idle"]_vars

\* C7's case: a request was read and handled to its end, and nothing was
\* queued or spawned (this specification never takes a reply off a queue).
C7_Witness ==
    /\ requests >= 1
    /\ \A t \in ConnIds : ~Handling(t) /\ out_buffer[t] = << >>
    /\ \A n \in NodeIds : nodeState[n] = "none"
    /\ \E t \in ConnIds : pc[t] = "idle" /\ running[t]

\* C8: every NODE_FIND_SUCCESS queued echoes the requester's role and the
\* wanted role and carries the host and port of an entry of the wanted role,
\* and these are a bound address, never None.
C8_ReplyCarriesBoundAddress ==
    \A t \in ConnIds :
        \A i \in 1..Len(out_buffer[t]) :
            LET m == out_buffer[t][i] IN
            m[1] = "NODE_FIND_SUCCESS" =>
                /\ m[2] = conn_type[t]
                /\ m[3] \in WantedRoles
                /\ \E e \in Range(node_threads) :
                       conn_type[e] = m[3] /\ conn_addr[e] = <<m[4], m[5]>>
                /\ m[4] # NoneV
                /\ m[5] # NoneV

-----------------------------------------------------------------------------
(* AuthNode: AuthNodeCookieManager and the AuthNodeThread of a CLIENT peer *)

AuthThreads == 1..NumAuthThreads
\* The strings random.choice can build, cut down to one more than is ever needed.
Cookies == 1..(MaxLogins + 1)
NoCookie == 0

\* A membership test that knows the newest cookie only.
is_newest(cookie) ==
    client_cookies # << >> /\ cookie = client_cookies[Len(client_cookies)]

\* is_authenticated: cookie in cls._client_cookies.
is_authenticated(cookie) == cookie \in Range(client_cookies)

\* A cookie manager without mutual exclusion: the lock is always granted.
CookieLockIgnored == TRUE
\* `with cls._lock`: the lock can be taken when no thread holds it.
CookieLockAvailable == cookie_lock = 0

\* AuthNodeThread.read on a CLIENT peer, LOGIN_DATA|...: handle_client calls
\* generate_cookie, whatever the credentials are.
ReadLoginData(a) ==
    /\ apc[a] = "idle" /\ apeer[a] = "CLIENT"
    /\ logins < MaxLogins
    /\ logins' = logins + 1
    /\ apc' = [apc EXCEPT ![a] = "gen_lock"]
    /\ UNCHANGED <<client_cookies, cookie_lock, apeer, new_cookie, auth_out, issued>>

\* generate_cookie: `with cls._lock:` entered.
GenAcquire(a) ==
    /\ apc[a] = "gen_lock"
    /\ CookieLockAvailable
    /\ cookie_lock' = a
    /\ apc' = [apc EXCEPT ![a] = "gen_draw"]
    /\ UNCHANGED <<client_cookies, apeer, new_cookie, auth_out, logins, issued>>

\* generate_cookie: new_cookie is drawn at random and looked up; the loop
\* draws again when it is in the list.
GenDraw(a, c) ==
    /\ apc[a] = "gen_draw"
    /\ new_cookie' = [new_cookie EXCEPT ![a] = c]
    /\ apc' = [apc EXCEPT ![a] = IF is_authenticated(c) THEN "gen_draw" ELSE "gen_append"]
    /\ UNCHANGED <<client_cookies, cookie_lock, apeer, auth_out, logins, issued>>

\* A generate_cookie that returns the token without storing it.
GenForget(a) ==
    /\ apc[a] = "gen_append"
    /\ apc' = [apc EXCEPT ![a] = "gen_return"]
    /\ UNCHANGED <<client_cookies, cookie_lock, apeer, new_cookie, auth_out, logins, issued>>

\* generate_cookie: cls._client_cookies.append(new_cookie).
GenAppend(a) ==
    /\ apc[a] = "gen_append"
    /\ client_cookies' = Append(client_cookies, new_cookie[a])
    /\ apc' = [apc EXCEPT ![a] = "gen_return"]
    /\ UNCHANGED <<cookie_lock, apeer, new_cookie, auth_out, logins, issued>>

\* generate_cookie returns (the lock is released) and handle_client pushes
\* LOGIN_SUCCESS|new_cookie.
GenReturn(a) ==
    /\ apc[a] = "gen_return"
    /\ cookie_lock' = IF cookie_lock = a THEN 0 ELSE cookie_lock
    /\ auth_out' = [auth_out EXCEPT ![a] = Append(@, <<"LOGIN_SUCCESS", new_cookie[a]>>)]
    /\ issued' = Append(issued, new_cookie[a])
    /\ new_cookie' = [new_cookie EXCEPT ![a] = NoCookie]
    /\ apc' = [apc EXCEPT ![a] = "idle"]
    /\ UNCHANGED <<client_cookies, apeer, logins>>

\* NodeWriteHandler.write from AuthNodeThread.run on a CLIENT peer: one
\* message is taken from the queue and sent to the client.
AuthWriteClient(a) ==
    /\ apeer[a] = "CLIENT"
    /\ apc[a] = "idle"
    /\ auth_out[a] # << >>
    /\ auth_out' = [auth_out EXCEPT ![a] = Tail(@)]
    /\ UNCHANGED <<client_cookies, cookie_lock, apc, apeer, new_cookie, logins, issued>>

\* The steps of a login on Auth connection thread a.
LoginStep(a) ==
    \/ ReadLoginData(a)
    \/ GenAcquire(a)
    \/ \E c \in Cookies : GenDraw(a, c)
    \/ GenAppend(a)
    \/ GenReturn(a)
    \/ AuthWriteClient(a)

-----------------------------------------------------------------------------
(* SpecCookie: the Auth connection threads, all of CLIENT peers, handle    *)
(* LOGIN_DATA messages concurrently.                                       *)


InitCookie ==
    /\ client_cookies = << >>
    /\ cookie_lock = 0
    /\ apc = [a \in AuthThreads |-> "idle"]
    /\ apeer = [a \in AuthThreads |-> "CLIENT"]
    /\ new_cookie = [a \in AuthThreads |-> NoCookie]
    /\ auth_out = [a \in AuthThreads |-> << >>]
    /\ logins = 0
    /\ issued = << >>
    /\ LbUnused
    /\ CoordUnused
    /\ RestUnused

NextCookie ==
    \E a \in AuthThreads : LoginStep(a) /\ UNCHANGED <<lbVars, coordVars, restVars>>

SpecCookie == InitCookie /\ [][NextCookie]_vars

NoDuplicates(s) == \A i, j \in 1..Len(s) : i # j => s[i] # s[j]

\* C1: for every interleaving of the LOGIN_DATA messages handled by the Auth
\* connection threads, the valid-cookie list never holds a token twice and
\* no two LOGIN_SUCCESS replies carry the same cookie; each cookie replied is
\* in the list.
C1_CookiesDistinct ==
    /\ NoDuplicates(client_cookies)
    /\ NoDuplicates(issued)
    /\ Range(issued) \subseteq Range(client_cookies)

\* C1's case: two logins handled by different threads have both been answered.
C1_Witness ==
    /\ Len(issued) >= 2
    /\ \E a, b \in AuthThreads :
          /\ a # b
          /\ \E i \in 1..Len(auth_out[a]) : auth_out[a][i][1] = "LOGIN_SUCCESS"
          /\ \E i \in 1..Len(auth_out[b]) : auth_out[b][i][1] = "LOGIN_SUCCESS"

-----------------------------------------------------------------------------
(* ContentNode: one ContentNodeThread of a CLIENT peer, the Auth           *)
(* connection threads its validations open, and the client, which may send *)
(* any message at any time.                                                *)

\* Socket 0 of the Content thread is self.sock, the client's; socket a > 0
\* is the one connect_to_node opened to Auth connection thread a.
ClientSock == 0
\* The Auth connection threads the validations of this connection reach.
AuthLinks == 1..MaxLinks
RequestedNames == {"song1"}
\* The client presents the cookie issued last or one that was never issued.
ClientCookies == {MaxLogins, MaxLogins + 1}
\* connect_to_node: the Auth connection thread a new socket leads to (the
\* next one the Auth role creates), or 0 when no connection could be made.
ConnectResults == {0} \cup {a \in AuthLinks : apc[a] = "none" /\ \A b \in 1..(a - 1) : apc[b] # "none"}
MusicDirs == {{}, {<<"song1", "wav">>}, {<<"readme", "txt">>}}

\* get_music_files: the names of the .wav files of the directory.
music_files(dir) == {f[1] : f \in {g \in dir : g[2] = "wav"}}

\* A push that queues the message twice.
content_push_twice(buf, m) == Append(Append(buf, m), m)

\* write_handler.push_message(m).
content_push(buf, m) == Append(buf, m)

\* process_file_request, with get_music_files: the reply queued.
FileRequestReply(dir) ==
    IF dir = {} THEN <<"NO_FILES_AVAILABLE">> ELSE <<"FILES_AVAILABLE", music_files(dir)>>

\* A connection thread whose load goes down when it opens a link.
LinkDiscounted(v) == v - 1

\* handle_client, CLIENT_COOKIE: self.load += 1.
LinkCounted(v) == v + 1

\* handle_client, CLIENT_COOKIE|c: the cookie is kept, a connection to Auth
\* is opened (a = 0: connect_to_node returned None), load grows by one and
\* CHECKING_COOKIE is queued.  The AuthNodeThread the Auth role creates for
\* the connection queues COOKIE_CHECK as it starts.
ReadClientCookie(c, a) ==
    /\ content_running
    /\ client_sent < MaxClientMsgs
    /\ a \in ConnectResults
    /\ client_sent' = client_sent + 1
    /\ presented' = presented \cup {c}
    /\ client_cookie' = c
    /\ auth_sock' = a
    /\ selector_socks' = IF a = 0 THEN selector_socks ELSE selector_socks \cup {a}
    /\ content_load' = LinkCounted(content_load)
    /\ content_out' = content_push(content_out, <<"CHECKING_COOKIE">>)
    /\ IF a = 0
         THEN UNCHANGED <<apc, apeer, auth_out>>
         ELSE /\ apc' = [apc EXCEPT ![a] = "idle"]
              /\ apeer' = [apeer EXCEPT ![a] = "CONTENT"]
              /\ auth_out' = [auth_out EXCEPT ![a] = <<<<"COOKIE_CHECK">>>>]
    /\ UNCHANGED <<stream_mode, file_to_stream, content_running, to_client, to_auth,
                   from_auth, music_dir, client_cookies, cookie_lock, new_cookie,
                   logins, issued>>

\* handle_client, FILE_REQUEST: process_file_request.
ReadFileRequest ==
    /\ content_running
    /\ client_sent < MaxClientMsgs
    /\ client_sent' = client_sent + 1
    /\ content_out' = content_push(content_out, FileRequestReply(music_dir))
    /\ UNCHANGED <<client_cookie, auth_sock, selector_socks, stream_mode, file_to_stream,
                   content_load, content_running, to_client, to_auth, from_auth,
                   presented, music_dir, authVars>>

\* handle_client, FILE_NAME|n.
ReadFileName(n) ==
    /\ content_running
    /\ client_sent < MaxClientMsgs
    /\ client_sent' = client_sent + 1
    /\ IF music_dir = {}
         THEN /\ content_out' = content_push(content_out, <<"NO_FILES_AVAILABLE">>)
              /\ UNCHANGED <<stream_mode, file_to_stream>>
         ELSE IF n \in music_files(music_dir)
                THEN /\ file_to_stream' = n
                     /\ stream_mode' = TRUE
                     /\ content_out' = content_push(content_out,
                                                    <<"STREAM_MODE_ENTER", "rate">>)
                ELSE /\ content_out' = content_push(content_out, <<"FILE_NAME_INVALID">>)
                     /\ UNCHANGED <<stream_mode, file_to_stream>>
    /\ UNCHANGED <<client_cookie, auth_sock, selector_socks, content_load,
                   content_running, to_client, to_auth, from_auth, presented, music_dir,
                   authVars>>

\* handle_client, CLIENT_STREAM_MODE_ENTER in stream mode: the frames of the
\* file are sent on the client socket with sendall, not through the queue.
ReadStreamEnter ==
    /\ content_running
    /\ client_sent < MaxClientMsgs
    /\ stream_mode
    /\ client_sent' = client_sent + 1
    /\ to_client' = Append(to_client, <<"FRAMES", file_to_stream>>)
    /\ UNCHANGED <<client_cookie, auth_sock, selector_socks, stream_mode, file_to_stream,
                   content_load, content_out, content_running, to_auth, from_auth,
                   presented, music_dir, authVars>>

\* handle_client, CLIENT_STREAM_MODE_LEAVE in stream mode.
ReadStreamLeave ==
    /\ content_running
    /\ client_sent < MaxClientMsgs
    /\ stream_mode
    /\ client_sent' = client_sent + 1
    /\ stream_mode' = FALSE
    /\ content_out' = content_push(content_out, FileRequestReply(music_dir))
    /\ UNCHANGED <<client_cookie, auth_sock, selector_socks, file_to_stream,
                   content_load, content_running, to_client, to_auth, from_auth,
                   presented, music_dir, authVars>>

\* handle_client, DISCONNECT: kill_connection.
ReadDisconnect ==
    /\ content_running
    /\ client_sent < MaxClientMsgs
    /\ client_sent' = client_sent + 1
    /\ content_running' = FALSE
    /\ UNCHANGED <<client_cookie, auth_sock, selector_socks, stream_mode, file_to_stream,
                   content_load, content_out, to_client, to_auth, from_auth, presented,
                   music_dir, authVars>>

\* handle_auth, COOKIE_VALID / COOKIE_INVALID: the reply to the client.
CookieReply(verdict) ==
    IF verdict = "COOKIE_VALID" THEN "COOKIE_CHECK_SUCCESS" ELSE "COOKIE_CHECK_FAIL"

\* ContentNodeThread.read on the socket to Auth connection a.  A message is
\* handled by handle_auth only when that socket is self.auth_sock.
ContentReadAuth(a) ==
    /\ content_running
    /\ a \in selector_socks
    /\ from_auth[a] # << >>
    /\ from_auth' = [from_auth EXCEPT ![a] = Tail(@)]
    /\ LET msg == Head(from_auth[a]) IN
         IF a = auth_sock /\ msg[1] = "COOKIE_CHECK"
           THEN /\ content_out' = content_push(content_out, <<"AUTH_COOKIE", client_cookie>>)
                /\ UNCHANGED <<auth_sock, content_load>>
           ELSE IF a = auth_sock /\ msg[1] \in {"COOKIE_VALID", "COOKIE_INVALID"}
                  THEN \* disconnect_from_auth_node, then the reply
                       /\ content_out' = content_push(content_push(content_out, <<"DISCONNECT">>),
                                                      <<CookieReply(msg[1])>>)
                       /\ auth_sock' = 0
                       /\ content_load' = content_load - 1
                  ELSE UNCHANGED <<content_out, auth_sock, content_load>>
    /\ UNCHANGED <<client_cookie, selector_socks, stream_mode, file_to_stream,
                   content_running, to_client, to_auth, presented, client_sent,
                   music_dir, authVars>>

\* NodeWriteHandler.write from ContentNodeThread.run: the next message of the
\* one queue is sent on the socket k whose key the loop is at.
ContentWrite(k) ==
    /\ content_running
    /\ k \in {ClientSock} \cup selector_socks
    /\ content_out # << >>
    /\ content_out' = Tail(content_out)
    /\ IF k = ClientSock
         THEN /\ to_client' = Append(to_client, Head(content_out))
              /\ UNCHANGED to_auth
         ELSE /\ to_auth' = [to_auth EXCEPT ![k] =
                               IF apc[k] = "closed" THEN @ ELSE Append(@, Head(content_out))]
              /\ UNCHANGED to_client
    /\ UNCHANGED <<client_cookie, auth_sock, selector_socks, stream_mode, file_to_stream,
                   content_load, content_running, from_auth, presented, client_sent,
                   music_dir, authVars>>

\* An Auth thread that finds every cookie valid.
AlwaysValid(cookie) == "COOKIE_VALID"
\* handle_content, AUTH_COOKIE|cookie: the verdict queued.
AuthVerdict(cookie) == IF is_authenticated(cookie) THEN "COOKIE_VALID" ELSE "COOKIE_INVALID"

\* AuthNodeThread.read on a CONTENT peer: handle_content.
AuthReadContent(a) ==
    /\ apc[a] = "idle" /\ apeer[a] = "CONTENT"
    /\ to_auth[a] # << >>
    /\ to_auth' = [to_auth EXCEPT ![a] = Tail(@)]
    /\ LET msg == Head(to_auth[a]) IN
         IF msg[1] = "AUTH_COOKIE"
           THEN /\ auth_out' = [auth_out EXCEPT ![a] = Append(@, <<AuthVerdict(msg[2])>>)]
                /\ UNCHANGED apc
           ELSE IF msg[1] = "DISCONNECT"
                  THEN /\ apc' = [apc EXCEPT ![a] = "closed"]
                       /\ UNCHANGED auth_out
                  ELSE UNCHANGED <<apc, auth_out>>
    /\ UNCHANGED <<client_cookies, cookie_lock, apeer, new_cookie, logins, issued,
                   client_cookie, auth_sock, selector_socks, stream_mode, file_to_stream,
                   content_load, content_out, content_running, to_client, from_auth,
                   presented, client_sent, music_dir>>

\* NodeWriteHandler.write from AuthNodeThread.run on a CONTENT peer.
AuthWriteContent(a) ==
    /\ apc[a] = "idle" /\ apeer[a] = "CONTENT"
    /\ auth_out[a] # << >>
    /\ auth_out' = [auth_out EXCEPT ![a] = Tail(@)]
    /\ from_auth' = [from_auth EXCEPT ![a] = Append(@, Head(auth_out[a]))]
    /\ UNCHANGED <<client_cookies, cookie_lock, apc, apeer, new_cookie, logins, issued,
                   client_cookie, auth_sock, selector_socks, stream_mode, file_to_stream,
                   content_load, content_out, content_running, to_client, to_auth,
                   presented, client_sent, music_dir>>

-----------------------------------------------------------------------------
(* SpecContent: a client connects to Content after MaxLogins cookies were  *)
(* issued; ContentNodeThread.run has queued COOKIE_REQUEST.                *)

InitContent ==
    /\ client_cookies = [i \in 1..MaxLogins |-> i]
    /\ issued = client_cookies
    /\ logins = MaxLogins
    /\ cookie_lock = 0
    /\ apc = [a \in AuthLinks |-> "none"]
    /\ apeer = [a \in AuthLinks |-> "none"]
    /\ new_cookie = [a \in AuthLinks |-> NoCookie]
    /\ auth_out = [a \in AuthLinks |-> << >>]
    /\ client_cookie = NoCookie
    /\ auth_sock = 0
    /\ selector_socks = {}
    /\ stream_mode = FALSE
    /\ file_to_stream = "None"
    /\ content_load = 1
    /\ content_out = <<<<"COOKIE_REQUEST">>>>
    /\ content_running = TRUE
    /\ to_client = << >>
    /\ to_auth = [a \in AuthLinks |-> << >>]
    /\ from_auth = [a \in AuthLinks |-> << >>]
    /\ presented = {}
    /\ client_sent = 0
    /\ music_dir \in MusicDirs
    /\ LbUnused
    /\ CoordUnused
    /\ StreamUnused
    /\ ExtUnused

NextContent ==
    /\ \/ \E c \in ClientCookies, a \in AuthLinks \cup {0} : ReadClientCookie(c, a)
       \/ ReadFileRequest
       \/ \E n \in RequestedNames : ReadFileName(n)
       \/ ReadStreamEnter
       \/ ReadStreamLeave
       \/ ReadDisconnect
       \/ \E k \in AuthLinks \cup {ClientSock} : ContentWrite(k)
       \/ \E a \in AuthLinks : ContentReadAuth(a)
       \/ \E a \in AuthLinks : AuthReadContent(a)
       \/ \E a \in AuthLinks : AuthWriteContent(a)
    /\ UNCHANGED <<lbVars, coordVars, streamVars, extVars>>

SpecContent == InitContent /\ [][NextContent]_vars

Ops(s) == {s[i][1] : i \in 1..Len(s)}
Served == {"FILES_AVAILABLE", "STREAM_MODE_ENTER", "FRAMES"}

\* C2: on the client connection Content sends FILES_AVAILABLE,
\* STREAM_MODE_ENTER or stream frames only after it has sent
\* COOKIE_CHECK_SUCCESS on that connection.
C2_ServedOnlyAfterSuccess ==
    \A i \in 1..Len(to_client) :
        to_client[i][1] \in Served =>
            \E j \in 1..(i - 1) : to_client[j][1] = "COOKIE_CHECK_SUCCESS"

\* Every message of the Content thread, queued or written to any socket.
ContentReplies ==
    Ops(content_out) \cup Ops(to_client) \cup UNION {Ops(to_auth[a]) : a \in AuthLinks}

-----------------------------------------------------------------------------
(* The stream: the frame loop of ContentNodeThread.handle_client           *)
(* (CLIENT_STREAM_MODE_ENTER), the socket, ClientNode.handle_stream_mode.  *)

DigestLen == 16
HeaderSize == 4
ByteMod == 256
RecvMax == 4096
FrameByte == 7
FlipDeltas == {1, 255}

\* struct.pack("I", n): four bytes, least significant first.
Pack(n) == [i \in 1..HeaderSize |-> (n \div (ByteMod ^ (i - 1))) % ByteMod]

\* struct.unpack("I", b)[0].  A value of 2^31 or more is given as 2^31 - 1,
\* the largest integer of the model: a length the buffer never reaches.
Unpack(b) ==
    IF 2 * b[4] >= ByteMod
      THEN 2147483647
      ELSE b[1] + ByteMod * (b[2] + ByteMod * (b[3] + ByteMod * b[4]))

\* hashlib.md5(p).digest(): sixteen bytes that differ for different payloads
\* (the length, then the bytes of p, then zeros; p is shorter than sixteen).
Digest(p) ==
    [i \in 1..DigestLen |->
        IF i = 1 THEN Len(p) % ByteMod ELSE IF i - 1 <= Len(p) THEN p[i - 1] ELSE 0]

\* md5_checksum + struct.pack("I", len(chunk_data)) + chunk_data.
Frame(chunk) == Digest(chunk) \o Pack(Len(chunk)) \o chunk

\* The frame as it travels: one byte differs when the flip is in this frame.
Transmitted(f) ==
    IF flip # << >> /\ flip[1] = f
      THEN [Frame(chunks[f]) EXCEPT ![flip[2]] = (@ + flip[3]) % ByteMod]
      ELSE Frame(chunks[f])

Min(a, b) == IF a < b THEN a ELSE b
Drop(s, n) == SubSeq(s, n + 1, Len(s))

\* Content: key.fileobj.sendall(frame) for the next chunk read from the file.
SendFrame ==
    /\ sent < Len(chunks)
    /\ sent' = sent + 1
    /\ wire' = wire \o Transmitted(sent + 1)
    /\ UNCHANGED <<chunks, flip, rpc, data, md5_checksum, msg_size, sink,
                   client_stream_mode, mismatch, client_out>>

\* The `finally` of handle_stream_mode.
LeaveStream ==
    /\ rpc' = "left"
    /\ client_stream_mode' = FALSE
    /\ client_out' = Append(client_out, <<"CLIENT_STREAM_MODE_LEAVE">>)

\* ClientNode.read finds the Content socket readable in stream mode and
\* calls handle_stream_mode; the first recv of the header loop returns the
\* k bytes that have arrived.
StartStream(k) ==
    /\ rpc = "idle" /\ client_stream_mode
    /\ k \in 1..Min(Len(wire), RecvMax)
    /\ rpc' = "header"
    /\ data' = SubSeq(wire, 1, k)
    /\ wire' = Drop(wire, k)
    /\ UNCHANGED <<chunks, flip, sent, md5_checksum, msg_size, sink,
                   client_stream_mode, mismatch, client_out>>

\* The header loop: a further recv returns k bytes.
RecvHeader(k) ==
    /\ rpc = "header"
    /\ Len(data) < HeaderSize + DigestLen
    /\ k \in 1..Min(Len(wire), RecvMax)
    /\ data' = data \o SubSeq(wire, 1, k)
    /\ wire' = Drop(wire, k)
    /\ UNCHANGED <<chunks, flip, sent, rpc, md5_checksum, msg_size, sink,
                   client_stream_mode, mismatch, client_out>>

\* The header loop: recv finds that nothing has arrived yet and raises
\* BlockingIOError, which the outer `except Exception` takes.
HeaderNoData ==
    /\ rpc = "header"
    /\ Len(data) < HeaderSize + DigestLen
    /\ LeaveStream
    /\ UNCHANGED <<chunks, flip, sent, wire, data, md5_checksum, msg_size, sink,
                   mismatch>>

\* The header is taken from the buffer.
ParseHeader ==
    /\ rpc = "header"
    /\ Len(data) >= HeaderSize + DigestLen
    /\ md5_checksum' = SubSeq(data, 1, DigestLen)
    /\ msg_size' = Unpack(SubSeq(data, DigestLen + 1, DigestLen + HeaderSize))
    /\ data' = Drop(data, DigestLen + HeaderSize)
    /\ rpc' = "payload"
    /\ UNCHANGED <<chunks, flip, sent, wire, sink, client_stream_mode, mismatch,
                   client_out>>

\* The payload loop: recv returns k bytes.  When nothing has arrived the
\* BlockingIOError is passed over and the loop goes round again.
RecvPayload(k) ==
    /\ rpc = "payload"
    /\ Len(data) < msg_size
    /\ k \in 1..Min(Len(wire), RecvMax)
    /\ data' = data \o SubSeq(wire, 1, k)
    /\ wire' = Drop(wire, k)
    /\ UNCHANGED <<chunks, flip, sent, rpc, md5_checksum, msg_size, sink,
                   client_stream_mode, mismatch, client_out>>

\* recv_checksum != md5_checksum.
ChecksumDiffers(payload, checksum) == Digest(payload) # checksum

\* A comparison that reports the mismatch and plays the payload all the same.
CheckFramePlaying ==
    /\ rpc = "payload"
    /\ Len(data) >= msg_size
    /\ mismatch' = (mismatch \/ ChecksumDiffers(SubSeq(data, 1, msg_size), md5_checksum))
    /\ sink' = Append(sink, SubSeq(data, 1, msg_size))
    /\ data' = Drop(data, msg_size)
    /\ rpc' = "header"
    /\ UNCHANGED <<chunks, flip, sent, wire, md5_checksum, msg_size, client_stream_mode,
                   client_out>>

\* The payload is complete: the digests are compared, and the payload goes
\* to stream.write or the loop is left.
CheckFrame ==
    /\ rpc = "payload"
    /\ Len(data) >= msg_size
    /\ IF ChecksumDiffers(SubSeq(data, 1, msg_size), md5_checksum)
         THEN /\ mismatch' = TRUE
              /\ LeaveStream
              /\ UNCHANGED <<data, sink>>
         ELSE /\ sink' = Append(sink, SubSeq(data, 1, msg_size))
              /\ data' = Drop(data, msg_size)
              /\ rpc' = "header"
              /\ UNCHANGED <<mismatch, client_stream_mode, client_out>>
    /\ UNCHANGED <<chunks, flip, sent, wire, md5_checksum, msg_size>>

-----------------------------------------------------------------------------
(* SpecStream: Content streams a file of up to MaxChunks chunks to a       *)
(* client in stream mode; at most one byte of one frame changes in transit *)

Payloads == {[i \in 1..n |-> FrameByte] : n \in 1..MaxChunkLen}
ChunkSeqs == UNION {[1..n -> Payloads] : n \in 1..MaxChunks}
Flips(cs) ==
    {<<f, p, d>> : f \in 1..Len(cs), p \in 1..(DigestLen + HeaderSize + MaxChunkLen),
                   d \in FlipDeltas}

InitStream ==
    /\ chunks \in ChunkSeqs
    /\ flip \in {<< >>} \cup {x \in Flips(chunks) : x[2] <= Len(Frame(chunks[x[1]]))}
    /\ sent = 0
    /\ wire = << >>
    /\ rpc = "idle"
    /\ data = << >>
    /\ md5_checksum = << >>
    /\ msg_size = 0
    /\ sink = << >>
    /\ client_stream_mode = TRUE
    /\ mismatch = FALSE
    /\ client_out = << >>
    /\ LbUnused
    /\ CoordUnused
    /\ AuthUnused
    /\ ContentUnused
    /\ ExtUnused

NextStream ==
    /\ \/ SendFrame
       \/ \E k \in 1..(MaxChunks * (DigestLen + HeaderSize + MaxChunkLen)) : StartStream(k)
       \/ \E k \in 1..(MaxChunks * (DigestLen + HeaderSize + MaxChunkLen)) : RecvHeader(k)
       \/ HeaderNoData
       \/ ParseHeader
       \/ \E k \in 1..(MaxChunks * (DigestLen + HeaderSize + MaxChunkLen)) : RecvPayload(k)
       \/ CheckFrame
    /\ UNCHANGED <<lbVars, coordVars, authVars, contentVars, extVars>>

SpecStream == InitStream /\ [][NextStream]_vars

\* C9: with no byte changed in transit, the payloads the client passes to
\* the audio sink are the chunks Content sent, in order and unchanged,
\* however the bytes are split across the client's receives.
C9_SinkEqualsSent ==
    flip = << >> =>
        /\ Len(sink) <= Len(chunks)
        /\ \A i \in 1..Len(sink) : sink[i] = chunks[i]
        /\ rpc = "left" => sink = chunks

\* The client is in the payload loop with less than msg_size bytes buffered.
InPayloadLoop == rpc = "payload" /\ Len(data) < msg_size

\* C10: when one byte of a frame was flipped in transit, then once every
\* byte sent has been received and the client has nothing left to process,
\* it has found a digest mismatch and left stream mode.
C10_FlipDetected ==
    (/\ flip # << >>
     /\ sent = Len(chunks)
     /\ wire = << >>
     /\ rpc = "left" \/ InPayloadLoop)
        => (mismatch /\ rpc = "left" /\ ~client_stream_mode)

-----------------------------------------------------------------------------
(* The handshake: NodeConnectionHandler.connect_to_node sends it,          *)
(* NodeConnectionHandler.accept_wrapper receives it and the connection     *)
(* thread's __init__ keeps its fields.  A message is a list of pieces: its *)
(* fields with the separator "|" between them; bytes sent one after the    *)
(* other on a socket are the pieces one after the other.                   *)

Sep == "|"
NumHandshakeFields == 4

\* '|'.join(fields), as the f-strings build a message.
RECURSIVE Join(_)
Join(fields) ==
    IF Len(fields) = 0 THEN << >>
    ELSE IF Len(fields) = 1 THEN <<fields[1]>>
    ELSE <<fields[1], Sep>> \o Join(Tail(fields))

\* text.split('|'): the fields; a field is the pieces between two
\* separators, which stand for their concatenation.
RECURSIVE SplitFrom(_, _, _)
SplitFrom(pieces, i, field) ==
    IF i > Len(pieces) THEN <<field>>
    ELSE IF pieces[i] = Sep THEN <<field>> \o SplitFrom(pieces, i + 1, << >>)
    ELSE SplitFrom(pieces, i + 1, Append(field, pieces[i]))
Split(pieces) == SplitFrom(pieces, 1, << >>)

HandshakeRoles == {"CLIENT", "AUTH", "CONTENT"}
HandshakeNames == {"client1", "auth1"}
HandshakeHosts == {"None", "10.0.0.1"}
HandshakePorts == {"None", "5000"}
LaterMessages == {<<"NODE_REQUEST", "CLIENT", "AUTH">>, <<"NODE_LOAD_UPDATED", "2">>}

\* connect_to_node: new_sock.send(f"{node_type}|{node_name}|{node_host}|{node_port}").
SendHandshake ==
    /\ hs_pc = "listening"
    /\ hs_later = 0 /\ hs_wire = << >> /\ handshake_args = << >>
    /\ hs_sent # << >>
    /\ hs_wire' = Join(hs_sent)
    /\ hs_later' = 1
    /\ UNCHANGED <<hs_sent, handshake_args, hs_conn, hs_pc>>

\* The initiator's write driver sends a message on the socket it connected.
SendAfterHandshake(m) ==
    /\ hs_later >= 1
    /\ hs_later <= MaxLater
    /\ hs_wire' = hs_wire \o Join(m)
    /\ hs_later' = hs_later + 1
    /\ UNCHANGED <<hs_sent, handshake_args, hs_conn, hs_pc>>

\* The fields a connection thread's __init__ takes from handshake_args.
ConnFields(args) == SubSeq(args, 1, NumHandshakeFields)

\* accept_wrapper: the first non-empty conn.recv(1024) is the handshake
\* message and is split; the connection thread's __init__ reads
\* handshake_args[0..3] (an IndexError when there are fewer).
AcceptWrapper ==
    /\ hs_pc = "listening"
    /\ hs_wire # << >>
    /\ hs_wire' = << >>
    /\ handshake_args' = Split(hs_wire)
    /\ IF Len(Split(hs_wire)) >= NumHandshakeFields
         THEN /\ hs_conn' = ConnFields(Split(hs_wire))
              /\ hs_pc' = "accepted"
         ELSE /\ hs_pc' = "failed"
              /\ UNCHANGED hs_conn
    /\ UNCHANGED <<hs_sent, hs_later>>

\* The connection thread's read: what arrives later is its peer's messages.
ThreadRecv ==
    /\ hs_pc = "accepted"
    /\ hs_wire # << >>
    /\ hs_wire' = << >>
    /\ UNCHANGED <<hs_sent, hs_later, handshake_args, hs_conn, hs_pc>>

InitHandshake ==
    /\ hs_sent \in {<<r, n, h, p>> : r \in HandshakeRoles, n \in HandshakeNames,
                                      h \in HandshakeHosts, p \in HandshakePorts}
    /\ hs_wire = << >>
    /\ hs_later = 0
    /\ handshake_args = << >>
    /\ hs_conn = << >>
    /\ hs_pc = "listening"
    /\ IdleHandshake

NextHandshake ==
    /\ \/ SendHandshake
       \/ \E m \in LaterMessages : SendAfterHandshake(m)
       \/ AcceptWrapper
       \/ ThreadRecv
    /\ UNCHANGED frameHandshake

SpecHandshake == InitHandshake /\ [][NextHandshake]_vars

\* C11: the peer role, name, host and port of an accepted connection's
\* thread equal, field for field, those the initiator sent in its
\* handshake, whatever it sends on the socket afterwards.
C11_HandshakeFields ==
    hs_pc # "listening" =>
        /\ hs_pc = "accepted"
        /\ \A i \in 1..NumHandshakeFields : hs_conn[i] = <<hs_sent[i]>>

-----------------------------------------------------------------------------
(* NodeConnectionHandler.connect_to_node: one call, each library call of   *)
(* an attempt either returning or raising.                                 *)

try_limit == 6

CallOutcomes == {"returns", "raises"}

\* new_sock.close() in a handler of the attempt.
Closed == conn_open \ {new_sock}

\* `for attempt in range(try_limit)`: the next iteration, or the final
\* `return None` when the limit is reached.
ForAttempt ==
    /\ conn_pc = "for"
    /\ IF attempt < try_limit
         THEN /\ attempt' = attempt + 1
              /\ conn_pc' = "socket"
              /\ UNCHANGED conn_result
         ELSE /\ conn_pc' = "returned"
              /\ conn_result' = NoSock
              /\ UNCHANGED attempt
    /\ UNCHANGED <<new_sock, conn_open, handshake_selector, parent_selector,
                   hs_sent, hs_wire>>

\* new_sock = socket.socket(...); when it raises new_sock still holds its
\* previous value and the handler calls new_sock.close(): an AttributeError
\* on None, which no handler catches.
CreateSocket(outcome) ==
    /\ conn_pc = "socket"
    /\ IF outcome = "returns"
         THEN /\ new_sock' = attempt
              /\ conn_open' = conn_open \cup {attempt}
              /\ conn_pc' = "connect"
         ELSE /\ conn_pc' = IF new_sock = NoSock THEN "raised" ELSE "for"
              /\ conn_open' = Closed
              /\ UNCHANGED new_sock
    /\ UNCHANGED <<attempt, handshake_selector, parent_selector, conn_result,
                   hs_sent, hs_wire>>

\* new_sock.connect_ex(...) then handshake_selector.register(new_sock,
\* EVENT_WRITE); when connect_ex raises: close and continue.
ConnectEx(outcome) ==
    /\ conn_pc = "connect"
    /\ IF outcome = "returns"
         THEN /\ handshake_selector' = handshake_selector \cup {new_sock}
              /\ conn_pc' = "select"
              /\ UNCHANGED conn_open
         ELSE /\ conn_open' = Closed
              /\ conn_pc' = "for"
              /\ UNCHANGED handshake_selector
    /\ UNCHANGED <<attempt, new_sock, parent_selector, conn_result,
                   hs_sent, hs_wire>>

\* The wait for writability: events arrive and the socket is unregistered,
\* or select raises: close and `return None`.
SelectWritable(outcome) ==
    /\ conn_pc = "select"
    /\ IF outcome = "returns"
         THEN /\ handshake_selector' = handshake_selector \ {new_sock}
              /\ conn_pc' = "send"
              /\ UNCHANGED <<conn_open, conn_result>>
         ELSE /\ conn_open' = Closed
              /\ conn_pc' = "returned"
              /\ conn_result' = NoSock
              /\ UNCHANGED handshake_selector
    /\ UNCHANGED <<attempt, new_sock, parent_selector, hs_sent, hs_wire>>

\* new_sock.send(handshake), parent_node.selector.register(new_sock,
\* EVENT_READ | EVENT_WRITE) and `return new_sock`; on OSError from the
\* send: close and continue.
SendAndRegister(outcome) ==
    /\ conn_pc = "send"
    /\ IF outcome = "returns"
         THEN /\ hs_wire' = hs_wire \o Join(hs_sent)
              /\ parent_selector' = parent_selector \cup {new_sock}
              /\ conn_result' = new_sock
              /\ conn_pc' = "returned"
              /\ UNCHANGED conn_open
         ELSE /\ conn_open' = Closed
              /\ conn_pc' = "for"
              /\ UNCHANGED <<hs_wire, parent_selector, conn_result>>
    /\ UNCHANGED <<attempt, new_sock, handshake_selector, hs_sent>>

InitConnect ==
    /\ hs_sent \in {<<r, n, h, p>> : r \in HandshakeRoles, n \in HandshakeNames,
                                      h \in HandshakeHosts, p \in HandshakePorts}
    /\ hs_wire = << >>
    /\ hs_later = 0
    /\ handshake_args = << >>
    /\ hs_conn = << >>
    /\ hs_pc = "listening"
    /\ ConnUnused
    /\ IdleConnect

NextConnect ==
    /\ \/ ForAttempt
       \/ \E o \in CallOutcomes : CreateSocket(o)
       \/ \E o \in CallOutcomes : ConnectEx(o)
       \/ \E o \in CallOutcomes : SelectWritable(o)
       \/ \E o \in CallOutcomes : SendAndRegister(o)
    /\ UNCHANGED frameConnect

SpecConnect == InitConnect /\ [][NextConnect]_vars

\* C12: connect_to_node makes at most try_limit attempts; an error in an
\* attempt closes that attempt's socket and leads to the next attempt; when
\* every attempt failed it returns None, without raising and with no socket
\* registered with the owner's selector; when it returns a socket it has
\* sent exactly one handshake and registered exactly that socket.
C12_ConnectContract ==
    /\ attempt <= try_limit
    /\ conn_pc # "raised"
    /\ conn_pc = "for" => conn_open = {}
    /\ (conn_pc = "returned" /\ conn_result = NoSock) =>
           /\ attempt = try_limit
           /\ parent_selector = {}
           /\ hs_wire = << >>
    /\ (conn_pc = "returned" /\ conn_result # NoSock) =>
           /\ hs_wire = Join(hs_sent)
           /\ parent_selector = {conn_result}
           /\ conn_open = {conn_result}

-----------------------------------------------------------------------------
(* One connection thread (BootstrapNodeThread.run), its socket and its     *)
(* NodeWriteHandler: push_message and write.                               *)

Readiness == SUBSET {"READ", "WRITE"}
Replies == {<<"NODE_FIND_SUCCESS", "CLIENT", "AUTH">>,
            <<"NODE_FIND_SUCCESS", "CLIENT", "CONTENT">>}

\* A take of the newest message instead of the oldest.
get_newest(q) == q[Len(q)]

\* out_buffer.get_nowait(): the message a Queue (FIFO) returns.
get_nowait(q) == Head(q)

\* `while self.write_handler.running`, then
\* events = self.selector.select(timeout=1): the readiness of the thread's
\* one socket; no event at a timeout.
Select(m) ==
    /\ run_pc = "select"
    /\ wh_running
    /\ mask' = m
    /\ run_pc' = "read"
    /\ UNCHANGED <<queue, sock_closed, pushed, written, wh_running>>

\* `while self.write_handler.running` with the flag false: run returns
\* through its `finally`.
LoopEnds ==
    /\ run_pc = "select"
    /\ ~wh_running
    /\ run_pc' = "exited"
    /\ UNCHANGED <<queue, sock_closed, mask, pushed, written, wh_running>>

\* `if mask & EVENT_READ: self.read(key)` with a request that makes the
\* handler push a reply.
ReadPush(m) ==
    /\ run_pc = "read"
    /\ "READ" \in mask
    /\ Len(pushed) < MaxPushes
    /\ queue' = Append(queue, m)
    /\ pushed' = Append(pushed, m)
    /\ run_pc' = "write"
    /\ UNCHANGED <<sock_closed, mask, written, wh_running>>

\* read with a message whose handler calls write_handler.kill_connection()
\* (DISCONNECT in AuthNodeThread and ContentNodeThread): running = False.
ReadKill ==
    /\ run_pc = "read"
    /\ "READ" \in mask
    /\ wh_running' = FALSE
    /\ run_pc' = "write"
    /\ UNCHANGED <<queue, sock_closed, mask, pushed, written>>

\* read with no bytes: the socket is unregistered and closed.
ReadClose ==
    /\ run_pc = "read"
    /\ "READ" \in mask
    /\ sock_closed' = TRUE
    /\ run_pc' = "write"
    /\ UNCHANGED <<queue, mask, pushed, written, wh_running>>

\* No read readiness, or a message that queues nothing.
ReadNothing ==
    /\ run_pc = "read"
    /\ run_pc' = "write"
    /\ UNCHANGED <<queue, sock_closed, mask, pushed, written, wh_running>>

\* What write(key) does to the thread when key.fileobj is closed.  Its
\* first statement prints key.fileobj.getsockname(), which raises OSError on
\* a closed socket, before get_nowait and before the fileno() == -1 test
\* (whose parent_node.kill_connection() names a method the thread classes
\* do not have): the exception leaves run, which catches only
\* KeyboardInterrupt and ConnectionResetError.
WriteAtClosed == [queue |-> queue, running |-> wh_running, pc |-> "raised"]

\* `if mask & EVENT_WRITE and not out_buffer.empty(): write(key)`.
\* On an open socket write takes one message and sends it.
WriteRun ==
    /\ run_pc = "write"
    /\ "WRITE" \in mask
    /\ queue # << >>
    /\ IF sock_closed
         THEN /\ queue' = WriteAtClosed.queue
              /\ wh_running' = WriteAtClosed.running
              /\ run_pc' = WriteAtClosed.pc
              /\ UNCHANGED written
         ELSE /\ queue' = Tail(queue)
              /\ written' = Append(written, get_nowait(queue))
              /\ run_pc' = "select"
              /\ UNCHANGED wh_running
    /\ UNCHANGED <<sock_closed, mask, pushed>>

\* The write driver does not run; `if not self.selector.get_map(): break`.
WriteSkip ==
    /\ run_pc = "write"
    /\ ~("WRITE" \in mask /\ queue # << >>)
    /\ run_pc' = IF sock_closed THEN "exited" ELSE "select"
    /\ UNCHANGED <<queue, sock_closed, mask, pushed, written, wh_running>>

InitWrite ==
    /\ queue = << >>
    /\ sock_closed = FALSE
    /\ mask = {}
    /\ run_pc = "select"
    /\ pushed = << >>
    /\ written = << >>
    /\ wh_running = TRUE
    /\ IdleWrite

NextWrite ==
    /\ \/ \E m \in Readiness : Select(m)
       \/ LoopEnds
       \/ \E m \in Replies : ReadPush(m)
       \/ ReadKill
       \/ ReadClose
       \/ ReadNothing
       \/ WriteRun
       \/ WriteSkip
    /\ UNCHANGED frameWrite

SpecWrite == InitWrite /\ [][NextWrite]_vars

\* A run of the write driver: a step that takes a message from the queue.
QueueShrinks == Len(queue') < Len(queue)

\* C13: the messages pushed onto one queue are sent in the order they were
\* pushed: what was sent, then what is still queued, is the sequence of
\* pushes; the write driver runs only
\* with the socket write-ready and the queue non-empty, and a run removes
\* exactly the oldest message and (the socket being open) sends it.
C13_FifoOrder ==
    /\ [](pushed = written \o queue)
    /\ [][QueueShrinks =>
            /\ "WRITE" \in mask
            /\ queue # << >>
            /\ queue' = Tail(queue)
            /\ ~sock_closed => written' = Append(written, Head(queue))]_vars

C13_Witness ==
    /\ Len(written) >= 2
    /\ written[1] # written[2]
    /\ queue # << >>

\* The write driver is about to be called on the thread's closed socket.
DriverAtClosed ==
    /\ run_pc = "write"
    /\ "WRITE" \in mask
    /\ queue # << >>
    /\ sock_closed

\* C27: a call of the write driver on a closed socket sends nothing, sets
\* the connection's running flag to false and returns to the loop, and the
\* loop, finding the flag false at its next iteration, exits without
\* another call of the driver.
C27_ClosedSocketStopsLoop ==
    /\ [][DriverAtClosed =>
            /\ written' = written
            /\ wh_running' = FALSE
            /\ run_pc' = "select"]_vars
    /\ [][(run_pc = "select" /\ ~wh_running) => run_pc' = "exited"]_vars

-----------------------------------------------------------------------------
(* The reply to FILE_REQUEST, under SpecContent.                           *)

\* Every message Content has queued or written.
ContentMessages ==
    Range(content_out) \cup Range(to_client) \cup UNION {Range(to_auth[a]) : a \in AuthLinks}

\* C15: the reply to FILE_REQUEST is NO_FILES_AVAILABLE when the directory
\* holds no streamable (.wav) file, and otherwise FILES_AVAILABLE with every
\* streamable name once; a FILES_AVAILABLE reply lists at least one name.
C15_FileRequestReply ==
    \A msg \in ContentMessages :
        /\ msg[1] = "NO_FILES_AVAILABLE" => music_files(music_dir) = {}
        /\ msg[1] = "FILES_AVAILABLE" =>
               /\ msg[2] = music_files(music_dir)
               /\ msg[2] # {}

-----------------------------------------------------------------------------
(* The destination of what a Content connection writes, under SpecContent. *)

\* The messages handle_auth queues for the Auth connection.
AuthAddressed == {"AUTH_COOKIE", "DISCONNECT"}

\* C20: a message queued for one peer is written only to that peer's
\* socket: on a Content connection, AUTH_COOKIE and DISCONNECT are written
\* only to the Auth socket and every other message (COOKIE_CHECK_SUCCESS and
\* COOKIE_CHECK_FAIL among them) only to the client socket.
C20_OwnPeerOnly ==
    /\ Ops(to_client) \cap AuthAddressed = {}
    /\ \A a \in AuthLinks : Ops(to_auth[a]) \subseteq AuthAddressed

-----------------------------------------------------------------------------
(* Loads: the entries of a registry (NodeThreadManager.node_threads) and   *)
(* the load of a Content connection thread, the one load the code ever     *)
(* decrements (disconnect_from_auth_node).                                 *)

-----------------------------------------------------------------------------
(* NodeThreadManager.close, called by the shutdown of a role, with the     *)
(* registered connection threads running beside it.                        *)

ThreadIds == 1..NumThreads
Closer == NumThreads + 1

\* An unregister that removes nothing.
RemovedNone(s, n) == s

\* A removal of the oldest entry whatever the node.
RemovedOldest(s, n) == IF s = << >> THEN << >> ELSE Tail(s)

\* unregister: `if node in self.node_threads: self.node_threads.remove(node)`.
RECURSIVE Removed(_, _)
Removed(s, n) ==
    IF s = << >> THEN << >>
    ELSE IF Head(s) = n THEN Tail(s)
    ELSE <<Head(s)>> \o Removed(Tail(s), n)

\* A connection thread reads zero bytes: its peer has closed.
ThreadReadZero(t) ==
    /\ thread_pc[t] = "running"
    /\ thread_pc' = [thread_pc EXCEPT ![t] = "closing"]
    /\ UNCHANGED <<node_threads, lock, sock_open, close_pc, close_seen>>

\* read, no data: thread_manager.unregister(self) under the lock, then
\* selector.unregister and key.fileobj.close().
ThreadUnregister(t) ==
    /\ thread_pc[t] = "closing"
    /\ lock = 0
    /\ node_threads' = Removed(node_threads, t)
    /\ sock_open' = [sock_open EXCEPT ![t] = FALSE]
    /\ thread_pc' = [thread_pc EXCEPT ![t] = "leaving"]
    /\ UNCHANGED <<lock, close_pc, close_seen>>

\* run: `if not self.selector.get_map(): break`, then `finally`:
\* thread_manager.unregister(self) again, under the lock.
ThreadExit(t) ==
    /\ thread_pc[t] = "leaving"
    /\ lock = 0
    /\ node_threads' = Removed(node_threads, t)
    /\ thread_pc' = [thread_pc EXCEPT ![t] = "exited"]
    /\ UNCHANGED <<lock, sock_open, close_pc, close_seen>>

\* close: `with self.lock:`.
CloseAcquire ==
    /\ close_pc = "idle"
    /\ lock = 0
    /\ lock' = Closer
    /\ close_pc' = "loop"
    /\ close_seen' = Range(node_threads)
    /\ UNCHANGED <<node_threads, thread_pc, sock_open>>

\* close: `for node in self.node_threads: node.kill_connection() ...`.  No
\* class of registered entries has a kill_connection method, so the first
\* entry raises AttributeError, which leaves the `with` block; with an empty
\* table the loop does nothing and the table is set to [].
CloseLoop ==
    /\ close_pc = "loop"
    /\ lock' = 0
    /\ IF node_threads = << >>
         THEN /\ node_threads' = << >>
              /\ close_pc' = "returned"
         ELSE /\ close_pc' = "raised"
              /\ UNCHANGED node_threads
    /\ UNCHANGED <<thread_pc, sock_open, close_seen>>

InitShutdown ==
    /\ node_threads = [i \in ThreadIds |-> i]
    /\ lock = 0
    /\ conn_type = << >>
    /\ conn_addr = << >>
    /\ load = << >>
    /\ pc = << >>
    /\ lbArg = << >>
    /\ lbNode = << >>
    /\ lbTmp = << >>
    /\ lbSnap = << >>
    /\ retLog = NotKept
    /\ load0 = << >>
    /\ thread_pc = [t \in ThreadIds |-> "running"]
    /\ sock_open = [t \in ThreadIds |-> TRUE]
    /\ close_pc = "idle"
    /\ close_seen = {}
    /\ IdleShutdown

NextShutdown ==
    /\ \/ \E t \in ThreadIds : ThreadReadZero(t)
       \/ \E t \in ThreadIds : ThreadUnregister(t)
       \/ \E t \in ThreadIds : ThreadExit(t)
       \/ CloseAcquire
       \/ CloseLoop
    /\ UNCHANGED frameShutdown

SpecShutdown == InitShutdown /\ [][NextShutdown]_vars

\* C16: close on a registry that holds running connection threads
\* terminates by returning, and then every entry that was registered has
\* its socket closed and its thread exited, and the table is empty.
C16_ShutdownClears ==
    (close_pc \notin {"idle", "loop"} /\ close_seen # {}) =>
        /\ close_pc = "returned"
        /\ node_threads = << >>
        /\ \A t \in close_seen : thread_pc[t] = "exited" /\ ~sock_open[t]

-----------------------------------------------------------------------------
(* The load report of an Auth or Content role: its main loop calls         *)
(* NodeThreadManager.update_main_load on every event of the Coordinator    *)
(* socket, while its connection threads unregister and (Content) change    *)
(* their loads.                                                            *)

NoReport == 0 - 1
ThreadLoads == {1, 2}

\* A connection accepted by the main loop: the thread's __init__ sets
\* load = 1 and registers, in the main thread.
ThreadRegister(t) ==
    /\ sum_pc = "idle"
    /\ t \notin Range(node_threads) \cup gone
    /\ \A u \in 1..(t - 1) : u \in Range(node_threads) \cup gone
    /\ node_threads' = Append(node_threads, t)
    /\ load' = [load EXCEPT ![t] = 1]
    /\ UNCHANGED <<sum_pc, sum_idx, new_load, main_load, gone, reported,
                   seen_sets, seen_loads>>

\* A connection thread ends: thread_manager.unregister(self).
ThreadLeaves(t) ==
    /\ t \in Range(node_threads)
    /\ node_threads' = Removed(node_threads, t)
    /\ gone' = gone \cup {t}
    /\ seen_sets' = IF sum_pc = "loop"
                      THEN seen_sets \cup {Range(Removed(node_threads, t))}
                      ELSE seen_sets
    /\ UNCHANGED <<load, sum_pc, sum_idx, new_load, main_load, reported, seen_loads>>

\* A Content connection thread: load += 1 on CLIENT_COOKIE, load -= 1 in
\* disconnect_from_auth_node.
ThreadLoadChanges(t, v) ==
    /\ t \in Range(node_threads)
    /\ v # load[t]
    /\ load' = [load EXCEPT ![t] = v]
    /\ seen_loads' = IF sum_pc = "loop"
                       THEN [seen_loads EXCEPT ![t] = @ \cup {v}]
                       ELSE seen_loads
    /\ UNCHANGED <<node_threads, sum_pc, sum_idx, new_load, main_load, gone,
                   reported, seen_sets>>

\* run, an event of prime_sock: update_main_load is entered, load = 0.
SumStart ==
    /\ sum_pc = "idle"
    /\ sum_pc' = "loop"
    /\ sum_idx' = 1
    /\ new_load' = 0
    /\ seen_sets' = {Range(node_threads)}
    /\ seen_loads' = [t \in ThreadIds |-> {load[t]}]
    /\ UNCHANGED <<node_threads, load, main_load, gone, reported>>

\* update_main_load: one iteration of `for node in self.node_threads:
\* load += node.load`; the list iterator keeps an index, and no lock is held.
SumStep ==
    /\ sum_pc = "loop"
    /\ sum_idx <= Len(node_threads)
    /\ new_load' = new_load + load[node_threads[sum_idx]]
    /\ sum_idx' = sum_idx + 1
    /\ UNCHANGED <<node_threads, load, sum_pc, main_load, gone, reported,
                   seen_sets, seen_loads>>

\* The iteration ends; `if self.load != new_load: self.load = new_load;
\* push_message(NODE_LOAD_UPDATED|load)`.
SumEnd ==
    /\ sum_pc = "loop"
    /\ sum_idx > Len(node_threads)
    /\ sum_pc' = "idle"
    /\ IF main_load # new_load
         THEN /\ main_load' = new_load
              /\ reported' = new_load
         ELSE UNCHANGED <<main_load, reported>>
    /\ UNCHANGED <<node_threads, load, sum_idx, new_load, gone, seen_sets, seen_loads>>

InitLoad ==
    /\ node_threads = << >>
    /\ load = [t \in ThreadIds |-> 1]
    /\ conn_type = << >>
    /\ conn_addr = << >>
    /\ lock = 0
    /\ pc = << >>
    /\ lbArg = << >>
    /\ lbNode = << >>
    /\ lbTmp = << >>
    /\ lbSnap = << >>
    /\ retLog = NotKept
    /\ load0 = << >>
    /\ sum_pc = "idle"
    /\ sum_idx = 0
    /\ new_load = 0
    /\ main_load = 0
    /\ gone = {}
    /\ reported = NoReport
    /\ seen_sets = {}
    /\ seen_loads = [t \in ThreadIds |-> {}]
    /\ IdleLoad

NextLoad ==
    /\ \/ \E t \in ThreadIds : ThreadRegister(t)
       \/ \E t \in ThreadIds : ThreadLeaves(t)
       \/ \E t \in ThreadIds, v \in ThreadLoads : ThreadLoadChanges(t, v)
       \/ SumStart
       \/ SumStep
       \/ SumEnd
    /\ UNCHANGED frameLoad

SpecLoad == InitLoad /\ [][NextLoad]_vars

\* The sums of loads of the entries of S, each entry with any load it had
\* during the computation.
RECURSIVE SumsOver(_)
SumsOver(S) ==
    IF S = {} THEN {0}
    ELSE LET t == CHOOSE x \in S : TRUE
         IN  {v + r : v \in seen_loads[t], r \in SumsOver(S \ {t})}

\* C17: every NODE_LOAD_UPDATED|n a role queues carries n equal to the sum
\* of the loads of the entries that were registered at one instant during
\* the computation of n.
C17_ReportIsARegisteredSum ==
    (sum_pc = "idle" /\ reported # NoReport /\ reported = new_load) =>
        \E S \in seen_sets : reported \in SumsOver(S)

-----------------------------------------------------------------------------
(* The Auth role over its life: connection threads of CLIENT peers that    *)
(* log in and disconnect, and a connection thread of a CONTENT peer that   *)
(* asks for validations.  The last thread is the CONTENT peer's.           *)

PeerOf(a) == IF a < NumAuthThreads THEN "CLIENT" ELSE "CONTENT"

\* handle_client, DISCONNECT: write_handler.kill_connection(); the run loop
\* of the thread ends.
ReadClientDisconnect(a) ==
    /\ apc[a] = "idle" /\ apeer[a] = "CLIENT"
    /\ apc' = [apc EXCEPT ![a] = "closed"]
    /\ UNCHANGED <<client_cookies, cookie_lock, apeer, new_cookie, auth_out, logins,
                   issued, to_auth, from_auth, checks>>

\* The Content peer of thread a sends AUTH_COOKIE|c.
SendAuthCookie(a, c) ==
    /\ apeer[a] = "CONTENT" /\ apc[a] = "idle"
    /\ Len(checks) + Len(to_auth[a]) < MaxChecks
    /\ to_auth' = [to_auth EXCEPT ![a] = Append(@, <<"AUTH_COOKIE", c>>)]
    /\ UNCHANGED <<authVars, from_auth, checks>>

\* handle_content on the message at the head of the socket, with the record
\* of the check.
HandleContent(a) ==
    /\ AuthReadContent(a)
    /\ LET msg == Head(to_auth[a]) IN
         checks' = IF msg[1] = "AUTH_COOKIE"
                     THEN Append(checks, [cookie |-> msg[2],
                                          issued |-> msg[2] \in Range(issued),
                                          verdict |-> AuthVerdict(msg[2])])
                     ELSE checks

InitAuth ==
    /\ client_cookies = << >>
    /\ cookie_lock = 0
    /\ apc = [a \in AuthThreads |-> "idle"]
    /\ apeer = [a \in AuthThreads |-> PeerOf(a)]
    /\ new_cookie = [a \in AuthThreads |-> NoCookie]
    /\ auth_out = [a \in AuthThreads |-> << >>]
    /\ logins = 0
    /\ issued = << >>
    /\ client_cookie = 0
    /\ auth_sock = 0
    /\ selector_socks = {}
    /\ stream_mode = FALSE
    /\ file_to_stream = "None"
    /\ content_load = 0
    /\ content_out = << >>
    /\ content_running = FALSE
    /\ to_client = << >>
    /\ to_auth = [a \in AuthThreads |-> << >>]
    /\ from_auth = [a \in AuthThreads |-> << >>]
    /\ presented = {}
    /\ client_sent = 0
    /\ music_dir = {}
    /\ checks = << >>
    /\ IdleAuth

NextAuth ==
    /\ \/ \E a \in AuthThreads :
            LoginStep(a) /\ UNCHANGED <<contentVars, checks>>
       \/ \E a \in AuthThreads : ReadClientDisconnect(a) /\ UNCHANGED contentRest
       \/ \E a \in AuthThreads, c \in Cookies :
            SendAuthCookie(a, c) /\ UNCHANGED contentRest
       \/ \E a \in AuthThreads : HandleContent(a)
       \/ \E a \in AuthThreads : AuthWriteContent(a) /\ UNCHANGED checks
    /\ UNCHANGED frameAuth

SpecAuth == InitAuth /\ [][NextAuth]_vars

\* C19: no step removes a cookie from the valid set, and once
\* LOGIN_SUCCESS|C has been issued every AUTH_COOKIE|C check is answered
\* COOKIE_VALID, also after the client that obtained C has disconnected.
C19_IssuedStaysValid ==
    /\ [](\A i \in 1..Len(checks) :
             checks[i].issued => checks[i].verdict = "COOKIE_VALID")
    /\ [][Range(client_cookies) \subseteq Range(client_cookies')]_vars

\* C19's case: a cookie was issued, every client has disconnected from Auth,
\* and a check of the first cookie issued has been answered after a second
\* one was issued.
C19_Witness ==
    /\ \A a \in AuthThreads : apeer[a] = "CLIENT" => apc[a] = "closed"
    /\ Len(issued) >= 2
    /\ \E i \in 1..Len(checks) : checks[i].issued /\ checks[i].cookie = issued[1]
    /\ \E a \in AuthThreads : \E j \in 1..Len(from_auth[a]) :
          from_auth[a][j][1] = "COOKIE_VALID"

-----------------------------------------------------------------------------
(* The whole flow seen from the Client: ClientNode.run with its one queue  *)
(* and its sockets to the Coordinator ("PRIME"), Auth and Content, each    *)
(* peer answering as its connection thread does.  No Auth instance runs at *)
(* the start; the catalog is {song1}.                                      *)

Peers == {"PRIME", "AUTH", "CONTENT"}
IssuedCookie == "C1"
\* The address in NODE_FIND_SUCCESS: the node's bound address, or None|None
\* when the node was spawned for the request and has not bound yet.
ReplyAddresses == {"bound", "None"}

\* The first message a connection thread queues for a CLIENT peer.
Greeting(role) == IF role = "AUTH" THEN <<"LOGIN_REQUEST">> ELSE <<"COOKIE_REQUEST">>

\* The file names the user has typed so far: one per list answered.
RECURSIVE Named(_)
Named(s) ==
    IF s = << >> THEN 0
    ELSE (IF Head(s) = "FILES_AVAILABLE" THEN 1 ELSE 0) + Named(Tail(s))

\* A Client that answers COOKIE_REQUEST with the cookie it was constructed
\* with.
ClientRepliesUnset(msg) ==
    IF msg[1] = "LOGIN_REQUEST" THEN <<<<"LOGIN_DATA", "alice:pw">>>>
    ELSE IF msg[1] = "LOGIN_SUCCESS"
      THEN <<<<"DISCONNECT">>, <<"NODE_REQUEST", "CLIENT", "CONTENT">>>>
    ELSE IF msg[1] = "COOKIE_REQUEST" THEN <<<<"CLIENT_COOKIE", "None">>>>
    ELSE << >>

\* handle_auth and handle_content of the Client: the messages pushed for a
\* message read.  At FILES_AVAILABLE the Client waits in input() for a name.
ClientReplies(msg) ==
    IF msg[1] = "LOGIN_REQUEST" THEN <<<<"LOGIN_DATA", "alice:pw">>>>
    ELSE IF msg[1] = "LOGIN_SUCCESS"
      THEN <<<<"DISCONNECT">>, <<"NODE_REQUEST", "CLIENT", "CONTENT">>>>
    ELSE IF msg[1] = "COOKIE_REQUEST" THEN <<<<"CLIENT_COOKIE", login_cookie>>>>
    ELSE IF msg[1] = "COOKIE_CHECK_SUCCESS" THEN <<<<"FILE_REQUEST">>>>
    ELSE IF msg[1] = "COOKIE_CHECK_FAIL" THEN <<<<"DISCONNECT">>>>
    ELSE IF msg[1] = "FILES_AVAILABLE"
      THEN IF Named(got) < MaxNames THEN <<<<"FILE_NAME", "song1">>>> ELSE << >>
    ELSE IF msg[1] \in {"NO_FILES_AVAILABLE", "FILE_NAME_INVALID"} THEN <<<<"FILE_REQUEST">>>>
    ELSE IF msg[1] = "STREAM_MODE_ENTER" THEN <<<<"CLIENT_STREAM_MODE_ENTER">>>>
    ELSE << >>

\* run: connect_to_node(prime) and push NODE_REQUEST|CLIENT|AUTH.
ClientStart ==
    /\ client_pc = "init"
    /\ client_pc' = "running"
    /\ client_socks' = {"PRIME"}
    /\ client_queue' = <<<<"NODE_REQUEST", "CLIENT", "AUTH">>>>
    /\ UNCHANGED <<login_cookie, client_streaming, content_streaming, to_peer, from_peer,
                   peer_open, frames_left, frames_played, got>>

\* write(key): the oldest message of the queue goes to the socket whose key
\* the loop is at.
ClientWrite(p) ==
    /\ client_pc = "running"
    /\ p \in client_socks
    /\ client_queue # << >>
    /\ client_queue' = Tail(client_queue)
    /\ to_peer' = [to_peer EXCEPT ![p] = Append(@, Head(client_queue))]
    /\ UNCHANGED <<client_pc, login_cookie, client_socks, client_streaming, content_streaming,
                   from_peer, peer_open, frames_left, frames_played, got>>

\* read on the Coordinator socket: handle_prime.  NODE_FIND_SUCCESS makes
\* the Client connect to messages[3], int(messages[4]); int("None") raises
\* ValueError, which run does not catch.  The connection thread of the new
\* peer starts and sends its first message.
ClientReadPrime ==
    /\ client_pc = "running"
    /\ "PRIME" \in client_socks
    /\ from_peer["PRIME"] # << >>
    /\ LET msg == Head(from_peer["PRIME"]) IN
         IF msg[4] = "None"
           THEN /\ client_pc' = "ended"
                /\ from_peer' = [from_peer EXCEPT !["PRIME"] = Tail(@)]
                /\ UNCHANGED <<client_socks, peer_open>>
           ELSE /\ client_socks' = client_socks \cup {msg[3]}
                /\ peer_open' = [peer_open EXCEPT ![msg[3]] = TRUE]
                /\ from_peer' = [from_peer EXCEPT !["PRIME"] = Tail(@),
                                                  ![msg[3]] = Append(@, Greeting(msg[3]))]
                /\ UNCHANGED client_pc
    /\ UNCHANGED <<login_cookie, client_queue, client_streaming, content_streaming, to_peer,
                   frames_left, frames_played, got>>

\* read on the Auth or the Content socket outside stream mode: handle_auth,
\* handle_content.
ClientRead(p) ==
    /\ client_pc = "running"
    /\ p \in client_socks \ {"PRIME"}
    /\ ~(p = "CONTENT" /\ client_streaming)
    /\ from_peer[p] # << >>
    /\ LET msg == Head(from_peer[p]) IN
         /\ msg[1] # "FRAME"
         /\ from_peer' = [from_peer EXCEPT ![p] = Tail(@)]
         /\ client_queue' = client_queue \o ClientReplies(msg)
         /\ login_cookie' = IF msg[1] = "LOGIN_SUCCESS" THEN msg[2] ELSE login_cookie
         /\ client_streaming' = (client_streaming \/ msg[1] = "STREAM_MODE_ENTER")
         /\ got' = Append(got, msg[1])
    /\ UNCHANGED <<client_pc, client_socks, content_streaming, to_peer, peer_open,
                   frames_left, frames_played>>

\* read outside stream mode when the bytes waiting are a frame that came
\* after handle_stream_mode returned: recv(1024).decode() either raises
\* UnicodeDecodeError, which run does not catch, or gives text that no
\* branch of handle_content matches.
ClientReadBytes(decodes) ==
    /\ client_pc = "running"
    /\ "CONTENT" \in client_socks
    /\ ~client_streaming
    /\ from_peer["CONTENT"] # << >>
    /\ Head(from_peer["CONTENT"])[1] = "FRAME"
    /\ from_peer' = [from_peer EXCEPT !["CONTENT"] = Tail(@)]
    /\ client_pc' = IF decodes THEN "running" ELSE "ended"
    /\ UNCHANGED <<login_cookie, client_socks, client_queue, client_streaming,
                   content_streaming, to_peer, peer_open, frames_left, frames_played, got>>

\* read returning no bytes: the peer has closed, the socket is unregistered
\* and closed.
ClientReadZero(p) ==
    /\ client_pc = "running"
    /\ p \in client_socks
    /\ ~(p = "CONTENT" /\ client_streaming)
    /\ ~peer_open[p]
    /\ from_peer[p] = << >>
    /\ client_socks' = client_socks \ {p}
    /\ UNCHANGED <<client_pc, login_cookie, client_queue, client_streaming,
                   content_streaming, to_peer, from_peer, peer_open, frames_left,
                   frames_played, got>>

\* read on the Content socket in stream mode: handle_stream_mode is entered.
ClientStreamEnter ==
    /\ client_pc = "running"
    /\ client_streaming
    /\ "CONTENT" \in client_socks
    /\ from_peer["CONTENT"] # << >> \/ ~peer_open["CONTENT"]
    /\ client_pc' = "streaming"
    /\ UNCHANGED <<login_cookie, client_socks, client_queue, client_streaming,
                   content_streaming, to_peer, from_peer, peer_open, frames_left,
                   frames_played, got>>

\* handle_stream_mode: one frame is received, checked and written to the
\* audio stream.
ClientPlayFrame ==
    /\ client_pc = "streaming"
    /\ from_peer["CONTENT"] # << >>
    /\ from_peer' = [from_peer EXCEPT !["CONTENT"] = Tail(@)]
    /\ frames_played' = frames_played + 1
    /\ UNCHANGED <<client_pc, login_cookie, client_socks, client_queue, client_streaming,
                   content_streaming, to_peer, peer_open, frames_left, got>>

\* handle_stream_mode: the header loop's recv finds nothing (BlockingIOError,
\* or RuntimeError when the peer has closed); `except Exception` ends the
\* loop and `finally` clears stream_mode and pushes CLIENT_STREAM_MODE_LEAVE.
\* This happens whenever the bytes received so far are used up, whether or
\* not Content has more frames to send.
ClientStreamEnds ==
    /\ client_pc = "streaming"
    /\ from_peer["CONTENT"] = << >>
    /\ client_streaming' = FALSE
    /\ client_queue' = Append(client_queue, <<"CLIENT_STREAM_MODE_LEAVE">>)
    /\ client_pc' = "running"
    /\ UNCHANGED <<login_cookie, client_socks, content_streaming, to_peer, from_peer,
                   peer_open, frames_left, frames_played, got>>

\* BootstrapNodeThread.read: NODE_REQUEST is answered with the address of
\* the node of the wanted role; any other message is passed over.
PrimeRead(addr) ==
    /\ to_peer["PRIME"] # << >>
    /\ to_peer' = [to_peer EXCEPT !["PRIME"] = Tail(@)]
    /\ LET msg == Head(to_peer["PRIME"]) IN
         from_peer' = IF msg[1] = "NODE_REQUEST"
                        THEN [from_peer EXCEPT !["PRIME"] =
                                Append(@, <<"NODE_FIND_SUCCESS", msg[2], msg[3], addr>>)]
                        ELSE from_peer
    /\ UNCHANGED <<client_pc, login_cookie, client_socks, client_queue, client_streaming,
                   content_streaming, peer_open, frames_left, frames_played, got>>

\* AuthNodeThread.read on the Client's connection: handle_client.
AuthRead ==
    /\ peer_open["AUTH"]
    /\ to_peer["AUTH"] # << >>
    /\ to_peer' = [to_peer EXCEPT !["AUTH"] = Tail(@)]
    /\ LET msg == Head(to_peer["AUTH"]) IN
         /\ from_peer' = IF msg[1] = "LOGIN_DATA"
                           THEN [from_peer EXCEPT !["AUTH"] =
                                   Append(@, <<"LOGIN_SUCCESS", IssuedCookie>>)]
                           ELSE from_peer
         /\ peer_open' = IF msg[1] = "DISCONNECT"
                           THEN [peer_open EXCEPT !["AUTH"] = FALSE]
                           ELSE peer_open
    /\ UNCHANGED <<client_pc, login_cookie, client_socks, client_queue, client_streaming,
                   content_streaming, frames_left, frames_played, got>>

\* handle_client of the Content connection: the replies to a message, the
\* validation by Auth having answered for CLIENT_COOKIE.
ContentAnswers(msg) ==
    IF msg[1] = "CLIENT_COOKIE"
      THEN <<<<"CHECKING_COOKIE">>,
             <<IF msg[2] = IssuedCookie THEN "COOKIE_CHECK_SUCCESS" ELSE "COOKIE_CHECK_FAIL">>>>
    ELSE IF msg[1] = "FILE_REQUEST" THEN <<<<"FILES_AVAILABLE", "song1">>>>
    ELSE IF msg[1] = "FILE_NAME"
      THEN <<IF msg[2] = "song1" THEN <<"STREAM_MODE_ENTER", "44100">>
                                 ELSE <<"FILE_NAME_INVALID">>>>
    ELSE IF msg[1] = "CLIENT_STREAM_MODE_LEAVE" /\ content_streaming
      THEN <<<<"FILES_AVAILABLE", "song1">>>>
    ELSE << >>

\* ContentNodeThread.read on the client socket: handle_client.
ContentRead ==
    /\ peer_open["CONTENT"]
    /\ frames_left = 0
    /\ to_peer["CONTENT"] # << >>
    /\ to_peer' = [to_peer EXCEPT !["CONTENT"] = Tail(@)]
    /\ LET msg == Head(to_peer["CONTENT"]) IN
         /\ from_peer' = [from_peer EXCEPT !["CONTENT"] = @ \o ContentAnswers(msg)]
         /\ content_streaming' =
               IF msg[1] = "FILE_NAME" /\ msg[2] = "song1" THEN TRUE
               ELSE IF msg[1] = "CLIENT_STREAM_MODE_LEAVE" THEN FALSE
               ELSE content_streaming
         /\ frames_left' =
               IF msg[1] = "CLIENT_STREAM_MODE_ENTER" /\ content_streaming
                 THEN NumFrames ELSE 0
         /\ peer_open' = IF msg[1] = "DISCONNECT"
                           THEN [peer_open EXCEPT !["CONTENT"] = FALSE]
                           ELSE peer_open
    /\ UNCHANGED <<client_pc, login_cookie, client_socks, client_queue, client_streaming,
                   frames_played, got>>

\* The frame loop of CLIENT_STREAM_MODE_ENTER: sendall of one frame.
ContentSendFrame ==
    /\ frames_left > 0
    /\ frames_left' = frames_left - 1
    /\ from_peer' = [from_peer EXCEPT !["CONTENT"] = Append(@, <<"FRAME">>)]
    /\ UNCHANGED <<client_pc, login_cookie, client_socks, client_queue, client_streaming,
                   content_streaming, to_peer, peer_open, frames_played, got>>

InitFlow ==
    /\ client_pc = "init"
    /\ login_cookie = "None"
    /\ client_socks = {}
    /\ client_queue = << >>
    /\ client_streaming = FALSE
    /\ content_streaming = FALSE
    /\ to_peer = [p \in Peers |-> << >>]
    /\ from_peer = [p \in Peers |-> << >>]
    /\ peer_open = [p \in Peers |-> p = "PRIME"]
    /\ frames_left = 0
    /\ frames_played = 0
    /\ got = << >>
    /\ IdleFlow

NextFlow ==
    /\ \/ ClientStart
       \/ \E p \in Peers : ClientWrite(p)
       \/ ClientReadPrime
       \/ \E p \in Peers : ClientRead(p)
       \/ \E decodes \in BOOLEAN : ClientReadBytes(decodes)
       \/ \E p \in Peers : ClientReadZero(p)
       \/ ClientStreamEnter
       \/ ClientPlayFrame
       \/ ClientStreamEnds
       \/ \E addr \in ReplyAddresses : PrimeRead(addr)
       \/ AuthRead
       \/ ContentRead
       \/ ContentSendFrame
    /\ UNCHANGED frameFlow

SpecFlow == InitFlow /\ [][NextFlow]_vars

\* Fair scheduling: a step that stays possible is eventually taken.
FairFlow == SpecFlow /\ WF_vars(NextFlow)

\* The replies of the happy path, in its order.
HappyReplies ==
    <<"LOGIN_REQUEST", "LOGIN_SUCCESS", "COOKIE_REQUEST", "CHECKING_COOKIE",
      "COOKIE_CHECK_SUCCESS", "FILES_AVAILABLE", "STREAM_MODE_ENTER", "FILES_AVAILABLE">>

\* The Client has been through the whole flow and is offered the list again.
BackInCatalog ==
    /\ login_cookie = IssuedCookie
    /\ got = HappyReplies
    /\ frames_played = NumFrames
    /\ ~client_streaming
    /\ ~content_streaming

\* C14: under fair scheduling a Client that starts the flow eventually has
\* received a cookie, COOKIE_CHECK_SUCCESS, the file list, STREAM_MODE_ENTER
\* and every frame of the file, and after the stream both sides have stream
\* mode cleared and the Client is offered the file list again.
C14_HappyPathCompletes == <>BackInCatalog

-----------------------------------------------------------------------------
(* AuthNodeThread.read as a dispatcher: connection threads of peers of any *)
(* role receive any message, well formed or not.                           *)

\* conn_type of the peer of connection a, as its handshake gave it: a
\* Client, a Content node, and another role for any further connection.
RoleOf(a) == IF a = 1 THEN "CLIENT" ELSE IF a = 2 THEN "CONTENT" ELSE "PRIME"
\* What follows LOGIN_DATA: the text typed at the Client's prompt, split on '|'.
Credentials == {<<"">>, <<"a", "b">>}
\* Opcodes no handler of the Auth role knows, alone or with a field.
UnknownMessages == {<<"FOO">>, <<"COOKIE_CHECK", "x">>}

\* A dispatcher that takes every peer for a Content node.
HandlerOfAny(peer) == "handle_content"
\* read: the handler chosen by self.conn_type.
HandlerOf(peer) ==
    IF peer = "CLIENT" THEN "handle_client"
    ELSE IF peer = "CONTENT" THEN "handle_content"
    ELSE "pass"

\* LOGIN_DATA messages sent and not yet read.
RECURSIVE LoginsIn(_)
LoginsIn(s) ==
    IF s = << >> THEN 0
    ELSE (IF Head(s)[1] = "LOGIN_DATA" THEN 1 ELSE 0) + LoginsIn(Tail(s))

\* The peer of connection a sends msg.
PeerSend(a, msg) ==
    /\ auth_sent < MaxAuthMsgs
    /\ auth_sent' = auth_sent + 1
    /\ msg[1] = "LOGIN_DATA" =>
          logins + SumOver([b \in AuthThreads |-> LoginsIn(to_auth[b])], AuthThreads) < MaxLogins
    /\ to_auth' = [to_auth EXCEPT ![a] = Append(@, msg)]
    /\ UNCHANGED <<authVars, from_auth, auth_read>>

\* AuthNodeThread.read with handle_client / handle_content: one message is
\* received and dispatched.  messages[1] of a one-field AUTH_COOKIE raises
\* IndexError, which run does not catch: the thread ends.
AuthThreadRead(a) ==
    /\ apc[a] = "idle"
    /\ to_auth[a] # << >>
    /\ to_auth' = [to_auth EXCEPT ![a] = Tail(@)]
    /\ LET msg == Head(to_auth[a])
           h == HandlerOf(apeer[a]) IN
         /\ auth_read' = auth_read \cup {<<apeer[a], msg[1]>>}
         /\ IF h = "handle_client" /\ msg[1] = "LOGIN_DATA"
              THEN /\ logins' = logins + 1
                   /\ apc' = [apc EXCEPT ![a] = "gen_lock"]
                   /\ UNCHANGED auth_out
            ELSE IF h = "handle_content" /\ msg[1] = "AUTH_COOKIE"
              THEN IF Len(msg) >= 2
                     THEN /\ auth_out' = [auth_out EXCEPT ![a] = Append(@, <<AuthVerdict(msg[2])>>)]
                          /\ UNCHANGED <<apc, logins>>
                     ELSE /\ apc' = [apc EXCEPT ![a] = "crashed"]
                          /\ UNCHANGED <<auth_out, logins>>
            ELSE IF h # "pass" /\ msg[1] = "DISCONNECT"
              THEN /\ apc' = [apc EXCEPT ![a] = "closed"]
                   /\ UNCHANGED <<auth_out, logins>>
            ELSE UNCHANGED <<apc, auth_out, logins>>
    /\ UNCHANGED <<client_cookies, cookie_lock, apeer, new_cookie, issued, from_auth,
                   auth_sent>>

\* NodeWriteHandler.write from AuthNodeThread.run: one message goes from the
\* queue to the peer.
AuthThreadWrite(a) ==
    /\ apc[a] = "idle"
    /\ auth_out[a] # << >>
    /\ auth_out' = [auth_out EXCEPT ![a] = Tail(@)]
    /\ from_auth' = [from_auth EXCEPT ![a] = Append(@, Head(auth_out[a]))]
    /\ UNCHANGED <<client_cookies, cookie_lock, apc, apeer, new_cookie, logins, issued,
                   to_auth, auth_sent, auth_read>>

InitDispatch ==
    /\ client_cookies = << >>
    /\ cookie_lock = 0
    /\ apc = [a \in AuthThreads |-> "idle"]
    /\ apeer = [a \in AuthThreads |-> RoleOf(a)]
    /\ new_cookie = [a \in AuthThreads |-> NoCookie]
    /\ auth_out = [a \in AuthThreads |-> << >>]
    /\ logins = 0
    /\ issued = << >>
    /\ client_cookie = 0
    /\ auth_sock = 0
    /\ selector_socks = {}
    /\ stream_mode = FALSE
    /\ file_to_stream = "None"
    /\ content_load = 0
    /\ content_out = << >>
    /\ content_running = FALSE
    /\ to_client = << >>
    /\ to_auth = [a \in AuthThreads |-> << >>]
    /\ from_auth = [a \in AuthThreads |-> << >>]
    /\ presented = {}
    /\ client_sent = 0
    /\ music_dir = {}
    /\ auth_sent = 0
    /\ auth_read = {}
    /\ IdleDispatch

NextDispatch ==
    /\ \/ \E a \in AuthThreads, d \in Credentials :
            PeerSend(a, <<"LOGIN_DATA">> \o d)
       \/ \E a \in AuthThreads, c \in Cookies : PeerSend(a, <<"AUTH_COOKIE", c>>)
       \/ \E a \in AuthThreads : PeerSend(a, <<"AUTH_COOKIE">>)
       \/ \E a \in AuthThreads : PeerSend(a, <<"DISCONNECT">>)
       \/ \E a \in AuthThreads, m \in UnknownMessages : PeerSend(a, m)
       \/ \E a \in AuthThreads : AuthThreadRead(a)
       \/ \E a \in AuthThreads :
            /\ \/ GenAcquire(a)
               \/ \E c \in Cookies : GenDraw(a, c)
               \/ GenAppend(a)
               \/ GenReturn(a)
            /\ UNCHANGED <<to_auth, from_auth, auth_sent, auth_read>>
       \/ \E a \in AuthThreads : AuthThreadWrite(a)
    /\ UNCHANGED frameDispatch

SpecDispatch == InitDispatch /\ [][NextDispatch]_vars

\* The step in which connection a reads the message at the head of its socket.
ReadsOn(a) == to_auth[a] # << >> /\ to_auth'[a] = Tail(to_auth[a])

\* C21: a well-formed AUTH_COOKIE|c read on a CONTENT-peer connection queues
\* exactly one reply, COOKIE_VALID when c is in the valid-cookie list and
\* COOKIE_INVALID otherwise, and leaves the list unchanged; read on a
\* CLIENT-peer connection it queues nothing; LOGIN_DATA read on a
\* CONTENT-peer connection issues no cookie.
C21_DispatchByPeerRole ==
    [][\A a \in AuthThreads : ReadsOn(a) =>
          LET msg == Head(to_auth[a]) IN
            /\ (apeer[a] = "CONTENT" /\ msg[1] = "AUTH_COOKIE" /\ Len(msg) = 2) =>
                  /\ auth_out'[a] = Append(auth_out[a],
                        <<IF msg[2] \in Range(client_cookies)
                            THEN "COOKIE_VALID" ELSE "COOKIE_INVALID">>)
                  /\ client_cookies' = client_cookies
                  /\ apc'[a] = "idle"
            /\ (apeer[a] = "CLIENT" /\ msg[1] = "AUTH_COOKIE") =>
                  /\ auth_out' = auth_out
                  /\ client_cookies' = client_cookies
            /\ (apeer[a] = "CONTENT" /\ msg[1] = "LOGIN_DATA") =>
                  /\ client_cookies' = client_cookies
                  /\ apc'[a] = "idle"
                  /\ auth_out' = auth_out
                  /\ logins' = logins]_vars

\* C21's case: a CONTENT-peer connection has answered a cookie that is in
\* the list, and a CLIENT-peer connection has read an AUTH_COOKIE.
C21_Witness ==
    /\ \E a \in AuthThreads :
          /\ apeer[a] = "CONTENT"
          /\ \E i \in 1..Len(from_auth[a]) : from_auth[a][i] = <<"COOKIE_VALID">>
    /\ <<"CLIENT", "AUTH_COOKIE">> \in auth_read

\* The cookies of the LOGIN_SUCCESS messages of a sequence, in order.
RECURSIVE SuccessCookies(_)
SuccessCookies(s) ==
    IF s = << >> THEN << >>
    ELSE (IF Head(s)[1] = "LOGIN_SUCCESS" THEN <<Head(s)[2]>> ELSE << >>)
         \o SuccessCookies(Tail(s))

\* The connection threads inside generate_cookie, and those past its append.
Generating == {a \in AuthThreads : apc[a] \in {"gen_lock", "gen_draw", "gen_append", "gen_return"}}
Appended == {a \in AuthThreads : apc[a] = "gen_return"}

\* C22: each LOGIN_DATA read on a CLIENT-peer connection, whatever follows
\* the opcode, adds exactly one cookie, not in the list before, and queues
\* exactly one LOGIN_SUCCESS with that cookie; a LOGIN_SUCCESS queued or
\* sent carries a cookie that is in the list already.
C22_LoginIssuesOneCookie ==
    /\ logins = Len(issued) + Cardinality(Generating)
    /\ Len(client_cookies) = Len(issued) + Cardinality(Appended)
    /\ NoDuplicates(client_cookies)
    /\ SubSeq(client_cookies, 1, Len(issued)) = issued
    /\ \A a \in AuthThreads :
          /\ apeer[a] # "CLIENT" => SuccessCookies(from_auth[a] \o auth_out[a]) = << >>
          /\ Range(SuccessCookies(from_auth[a] \o auth_out[a])) \subseteq Range(client_cookies)
    /\ Len(issued) =
          SumOver([a \in AuthThreads |-> Len(SuccessCookies(from_auth[a] \o auth_out[a]))],
                  AuthThreads)

\* C22's case: two LOGIN_DATA messages were read on a CLIENT-peer connection
\* and both LOGIN_SUCCESS replies have been sent.
C22_Witness ==
    /\ <<"CLIENT", "LOGIN_DATA">> \in auth_read
    /\ \E a \in AuthThreads :
          /\ apeer[a] = "CLIENT"
          /\ Len(SuccessCookies(from_auth[a])) = 2

-----------------------------------------------------------------------------
(* The validation of a client's cookie with an Auth instance that can be   *)
(* reached (connect_to_node returns a socket) and every step that stays    *)
(* possible eventually taken: the Content connection thread, the Auth      *)
(* connection thread of its link and their write drivers keep running.     *)

\* A step of the Content connection; the step that opens a link gets a socket.
NextValidation ==
    /\ NextContent
    /\ content_load' > content_load => auth_sock' # 0

SpecValidation == InitContent /\ [][NextValidation]_vars
FairValidation == SpecValidation /\ WF_vars(NextValidation)

CookieAnswers == {"COOKIE_CHECK_SUCCESS", "COOKIE_CHECK_FAIL"}
\* The answers written to the client socket so far.
Answered == {i \in 1..Len(to_client) : to_client[i][1] \in CookieAnswers}
\* DISCONNECT has gone to an Auth connection (read by it or still in flight).
LinkTornDown ==
    \E a \in AuthLinks : apc[a] = "closed" \/ "DISCONNECT" \in Ops(to_auth[a])

\* C23: once a CLIENT_COOKIE has been received and the link to Auth is
\* open, the client socket eventually carries COOKIE_CHECK_SUCCESS or
\* COOKIE_CHECK_FAIL (unless the client has disconnected), never more than
\* one answer per cookie received, and DISCONNECT has been sent to Auth by
\* the time the answer is.
C23_CookieAnswered ==
    /\ (auth_sock # 0) ~> (Answered # {} \/ ~content_running)
    /\ [](Answered # {} => LinkTornDown)
    /\ [](Cardinality(Answered) <= client_sent)

-----------------------------------------------------------------------------
(* The end of a stream: SpecStream with Content closing its socket at any  *)
(* time, and with ClientNode.read on the Content socket after              *)
(* handle_stream_mode has returned.                                        *)

\* recv(1024) of ClientNode.read.
ControlRecvMax == 1024

\* Content's end of the socket is closed: the frame loop has ended and the
\* connection thread has left, or the process has stopped.
SenderClose ==
    /\ ~sender_closed
    /\ sender_closed' = TRUE
    /\ UNCHANGED <<streamVars, zero_read, control_bytes, csock_state>>

\* Content stops in the middle of a sendall: the first k bytes of the frame
\* have gone out when its end of the socket is closed.  A stream has one
\* fault at most: this one, or a byte changed in transit.
SenderStops(k) ==
    /\ ~sender_closed
    /\ flip = << >>
    /\ sent < Len(chunks)
    /\ k \in 1..(Len(Transmitted(sent + 1)) - 1)
    /\ sent' = sent + 1
    /\ wire' = wire \o SubSeq(Transmitted(sent + 1), 1, k)
    /\ sender_closed' = TRUE
    /\ UNCHANGED <<chunks, flip, rpc, data, md5_checksum, msg_size, sink,
                   client_stream_mode, mismatch, client_out, zero_read, control_bytes,
                   csock_state>>

\* handle_stream_mode, header loop: recv returns b"" (every byte sent was
\* received and the peer has closed).  `if not packet: raise RuntimeError`;
\* the outer except takes it and `finally` runs.
HeaderZero ==
    /\ csock_state = "registered"
    /\ client_stream_mode
    /\ rpc \in {"idle", "header"}
    /\ rpc = "header" => Len(data) < HeaderSize + DigestLen
    /\ sender_closed /\ wire = << >>
    /\ zero_read' = TRUE
    /\ LeaveStream
    /\ UNCHANGED <<chunks, flip, sent, wire, data, md5_checksum, msg_size, sink, mismatch,
                   sender_closed, control_bytes, csock_state>>

\* handle_stream_mode, payload loop: recv returns b""; `data += b""` and the
\* loop `while len(data) < msg_size` goes round again.
PayloadZero ==
    /\ rpc = "payload"
    /\ Len(data) < msg_size
    /\ sender_closed /\ wire = << >>
    /\ zero_read' = TRUE
    /\ UNCHANGED <<streamVars, sender_closed, control_bytes, csock_state>>

\* ClientNode.read outside stream mode with bytes of the stream waiting:
\* recv(1024).decode() raises UnicodeDecodeError, which run does not catch
\* (its `finally` closes the selector), or it gives text whose first field
\* no branch of handle_content matches.
ControlRead(decodes) ==
    /\ csock_state = "registered"
    /\ rpc = "left"
    /\ wire # << >>
    /\ LET k == Min(Len(wire), ControlRecvMax) IN
         /\ wire' = Drop(wire, k)
         /\ control_bytes' = control_bytes + k
    /\ csock_state' = IF decodes THEN "registered" ELSE "lost"
    /\ UNCHANGED <<chunks, flip, sent, rpc, data, md5_checksum, msg_size, sink,
                   client_stream_mode, mismatch, client_out, sender_closed, zero_read>>

\* ClientNode.read outside stream mode, recv returns no bytes: the socket is
\* unregistered and closed.
ControlZero ==
    /\ csock_state = "registered"
    /\ rpc = "left"
    /\ sender_closed /\ wire = << >>
    /\ csock_state' = "closed"
    /\ UNCHANGED <<streamVars, sender_closed, zero_read, control_bytes>>

\* The file streamed: EndFrames chunks of EndChunkLen bytes.
EndFile == [i \in 1..EndFrames |-> [j \in 1..EndChunkLen |-> FrameByte]]

InitStreamEnd ==
    /\ chunks = EndFile
    /\ flip \in {<< >>} \cup {x \in Flips(chunks) : x[2] <= Len(Frame(chunks[x[1]]))}
    /\ sent = 0
    /\ wire = << >>
    /\ rpc = "idle"
    /\ data = << >>
    /\ md5_checksum = << >>
    /\ msg_size = 0
    /\ sink = << >>
    /\ client_stream_mode = TRUE
    /\ mismatch = FALSE
    /\ client_out = << >>
    /\ sender_closed = FALSE
    /\ zero_read = FALSE
    /\ control_bytes = 0
    /\ csock_state = "registered"
    /\ IdleStreamEnd

\* The steps of SpecStream while the Client's run loop is alive, Content
\* sending only while its socket is open; and the steps of the end.
NextStreamEnd ==
    \/ /\ NextStream
       /\ csock_state = "registered"
       /\ sent' > sent => ~sender_closed
    \/ /\ \/ SenderClose
          \/ \E k \in 1..(DigestLen + HeaderSize + EndChunkLen) : SenderStops(k)
          \/ HeaderZero
          \/ PayloadZero
          \/ \E decodes \in BOOLEAN : ControlRead(decodes)
          \/ ControlZero
       /\ UNCHANGED frameStreamEnd

SpecStreamEnd == InitStreamEnd /\ [][NextStreamEnd]_vars

FairStreamEnd == SpecStreamEnd /\ WF_vars(NextStreamEnd)

\* C25: after a recv of handle_stream_mode has returned no bytes, in the
\* header loop or in the payload loop, the Client eventually leaves stream
\* mode.
C25_ZeroReadEndsStream == zero_read ~> ~client_stream_mode

\* C26: the Client leaves stream mode (and queues CLIENT_STREAM_MODE_LEAVE)
\* only after a zero-byte read or a digest mismatch, never because a recv
\* found no data yet, and no byte of a frame is received by read outside
\* stream mode.
C26_LeavesOnlyAtStreamEnd ==
    /\ ~client_stream_mode => (zero_read \/ mismatch)
    /\ client_out # << >> => (zero_read \/ mismatch)
    /\ control_bytes = 0

-----------------------------------------------------------------------------
(* Peer departure: connection threads of one role read zero bytes, each in *)
(* its own time, beside threads that go on running.                        *)

\* The threads are registered, running and loaded.
InitDeparture ==
    /\ node_threads = [i \in ThreadIds |-> i]
    /\ lock = 0
    /\ conn_type = << >>
    /\ conn_addr = << >>
    /\ load \in [ThreadIds -> ThreadLoads]
    /\ pc = << >>
    /\ lbArg = << >>
    /\ lbNode = << >>
    /\ lbTmp = << >>
    /\ lbSnap = << >>
    /\ retLog = NotKept
    /\ load0 = << >>
    /\ thread_pc = [t \in ThreadIds |-> "running"]
    /\ sock_open = [t \in ThreadIds |-> TRUE]
    /\ close_pc = "idle"
    /\ close_seen = {}
    /\ IdleShutdown

NextDeparture ==
    /\ \/ \E t \in ThreadIds : ThreadReadZero(t)
       \/ \E t \in ThreadIds : ThreadUnregister(t)
       \/ \E t \in ThreadIds : ThreadExit(t)
    /\ UNCHANGED frameShutdown

SpecDeparture == InitDeparture /\ [][NextDeparture]_vars

InRegistry(t) == t \in Range(node_threads)

-----------------------------------------------------------------------------
(* The read handlers of every role: what one received message, split at    *)
(* '|', does to the role's state, its queue and its event loop.            *)

Loops == {"PRIME_THREAD", "AUTH_THREAD_CLIENT", "AUTH_THREAD_CONTENT",
          "CONTENT_THREAD", "CONTENT", "CLIENT"}
\* The loops that are connection threads: registered with a thread manager,
\* unregistered by the `finally` of run.
ThreadLoops == {"PRIME_THREAD", "AUTH_THREAD_CLIENT", "AUTH_THREAD_CONTENT",
                "CONTENT_THREAD"}

\* int(s) for the strings the messages carry; any other string raises
\* ValueError.
IntOf == ("1" :> 1) @@ ("2" :> 2) @@ ("5000" :> 5000)

ValidCookie == "c1"     \* a cookie Auth has issued
FileNames == {"song"}   \* get_music_files(): the .wav names of the directory

\* A role after construction and connection: load 1, no cookie, no file, not
\* streaming, nothing queued, running, registered.
St0 == [load |-> 1, cookie |-> "", cookies |-> 1, file |-> "", stream |-> FALSE,
        links |-> 0, out |-> << >>, running |-> TRUE, registered |-> TRUE]

\* A handler's result: the state it leaves and the exception it raised.
Ok(st) == [st |-> st, exc |-> "none"]
Raise(st, e) == [st |-> st, exc |-> e]
\* write_handler.push_message(opcode|...).
Push(st, op) == [st EXCEPT !.out = Append(@, op)]

\* messages[i] of the code is ms[i + 1]; an index past the end raises
\* IndexError.
Has(ms, i) == Len(ms) >= i + 1

\* BootstrapNodeThread.handle_node_request with a node of each role
\* registered: load_balancer(messages[2]) finds it, or returns None for any
\* other role and the handler returns.
handle_node_request(ms, st) ==
    IF ~Has(ms, 2) THEN Raise(st, "IndexError")
    ELSE IF ms[3] \in {"AUTH", "CONTENT"} THEN Ok(Push(st, "NODE_FIND_SUCCESS"))
    ELSE Ok(st)

\* NODE_LOAD_UPDATED: `self.load = int(messages[1])`.
ReadAsLoad(ms, st) ==
    IF ~Has(ms, 1) THEN Raise(st, "IndexError")
    ELSE IF ms[2] \notin DOMAIN IntOf THEN Raise(st, "ValueError")
    ELSE Ok([st EXCEPT !.load = IntOf[ms[2]]])

\* BootstrapNodeThread.read, on a message.
PrimeThreadRead(ms, st) ==
    IF ms[1] = "NODE_LOAD_UPDATED" THEN ReadAsLoad(ms, st)
    ELSE IF ms[1] = "NODE_REQUEST" THEN handle_node_request(ms, st)
    ELSE Ok(st)

\* AuthNodeThread.handle_client.
AuthHandleClient(ms, st) ==
    IF ms[1] = "LOGIN_DATA"
      THEN Ok(Push([st EXCEPT !.cookies = @ + 1], "LOGIN_SUCCESS"))
    ELSE IF ms[1] = "DISCONNECT" THEN Ok([st EXCEPT !.running = FALSE])
    ELSE Ok(st)

\* AuthNodeThread.handle_content.
AuthHandleContent(ms, st) ==
    IF ms[1] = "AUTH_COOKIE"
      THEN IF ~Has(ms, 1) THEN Raise(st, "IndexError")
           ELSE IF ms[2] = ValidCookie THEN Ok(Push(st, "COOKIE_VALID"))
           ELSE Ok(Push(st, "COOKIE_INVALID"))
    ELSE IF ms[1] = "DISCONNECT" THEN Ok([st EXCEPT !.running = FALSE])
    ELSE Ok(st)

\* ContentNodeThread.handle_client, with an Auth node known and a directory
\* that holds FileNames.
ContentHandleClient(ms, st) ==
    IF ms[1] = "CLIENT_COOKIE"
      THEN IF ~Has(ms, 1) THEN Raise(st, "IndexError")
           ELSE Ok(Push([st EXCEPT !.cookie = ms[2], !.links = @ + 1,
                                   !.load = @ + 1], "CHECKING_COOKIE"))
    ELSE IF ms[1] = "FILE_REQUEST" THEN Ok(Push(st, "FILES_AVAILABLE"))
    ELSE IF ms[1] = "FILE_NAME"
      THEN IF ~Has(ms, 1) THEN Raise(st, "IndexError")
           ELSE IF ms[2] \in FileNames
             THEN Ok(Push([st EXCEPT !.file = ms[2], !.stream = TRUE],
                          "STREAM_MODE_ENTER"))
           ELSE Ok(Push(st, "FILE_NAME_INVALID"))
    ELSE IF ms[1] = "CLIENT_STREAM_MODE_ENTER" /\ st.stream THEN Ok(st)
    ELSE IF ms[1] = "CLIENT_STREAM_MODE_LEAVE" /\ st.stream
      THEN Ok(Push([st EXCEPT !.stream = FALSE], "FILES_AVAILABLE"))
    ELSE IF ms[1] = "DISCONNECT" THEN Ok([st EXCEPT !.running = FALSE])
    ELSE Ok(st)

\* ContentNodeThread.handle_auth; disconnect_from_auth_node pushes
\* DISCONNECT and takes one from the load.
ContentHandleAuth(ms, st) ==
    IF ms[1] = "COOKIE_CHECK" THEN Ok(Push(st, "AUTH_COOKIE"))
    ELSE IF ms[1] = "COOKIE_VALID"
      THEN Ok(Push(Push([st EXCEPT !.load = @ - 1], "DISCONNECT"),
                   "COOKIE_CHECK_SUCCESS"))
    ELSE IF ms[1] = "COOKIE_INVALID"
      THEN Ok(Push(Push([st EXCEPT !.load = @ - 1], "DISCONNECT"),
                   "COOKIE_CHECK_FAIL"))
    ELSE Ok(st)

\* host, int(port) taken from messages[3], messages[4].
Address(ms, st) ==
    IF ~Has(ms, 4) THEN Raise(st, "IndexError")
    ELSE IF ms[5] \notin DOMAIN IntOf THEN Raise(st, "ValueError")
    ELSE Ok([st EXCEPT !.links = @ + 1])

\* ContentNode.read, the link to the Coordinator: `if messages[1] ==
\* "CONTENT"` is evaluated before the opcode is looked at.
ContentNodeRead(ms, st) ==
    IF ~Has(ms, 1) THEN Raise(st, "IndexError")
    ELSE IF ms[2] = "CONTENT" /\ ms[1] = "NODE_FIND_SUCCESS" THEN Address(ms, st)
    ELSE Ok(st)

\* ClientNode.handle_prime: `if messages[1] == "CLIENT"` is evaluated before
\* the opcode is looked at.
handle_prime(ms, st) ==
    IF ~Has(ms, 1) THEN Raise(st, "IndexError")
    ELSE IF ms[2] = "CLIENT" /\ ms[1] = "NODE_FIND_SUCCESS" THEN Address(ms, st)
    ELSE Ok(st)

\* ClientNode.handle_auth, the user typing a login.
handle_auth(ms, st) ==
    IF ms[1] = "LOGIN_REQUEST" THEN Ok(Push(st, "LOGIN_DATA"))
    ELSE IF ms[1] = "LOGIN_SUCCESS"
      THEN IF ~Has(ms, 1) THEN Raise(st, "IndexError")
           ELSE Ok(Push(Push([st EXCEPT !.cookie = ms[2]], "DISCONNECT"),
                        "NODE_REQUEST"))
    ELSE IF ms[1] = "LOGIN_FAIL" THEN Ok(Push(st, "DISCONNECT"))
    ELSE Ok(st)

\* ClientNode.handle_content, the user typing a file name.
handle_content(ms, st) ==
    IF ms[1] = "COOKIE_REQUEST" THEN Ok(Push(st, "CLIENT_COOKIE"))
    ELSE IF ms[1] = "CHECKING_COOKIE" THEN Ok(st)
    ELSE IF ms[1] = "COOKIE_CHECK_SUCCESS" THEN Ok(Push(st, "FILE_REQUEST"))
    ELSE IF ms[1] = "COOKIE_CHECK_FAIL" THEN Ok(Push(st, "DISCONNECT"))
    ELSE IF ms[1] = "FILES_AVAILABLE" THEN Ok(Push(st, "FILE_NAME"))
    ELSE IF ms[1] \in {"NO_FILES_AVAILABLE", "FILE_NAME_INVALID"}
      THEN Ok(Push(st, "FILE_REQUEST"))
    ELSE IF ms[1] = "STREAM_MODE_ENTER"
      THEN IF ~Has(ms, 1) THEN Raise(st, "IndexError")
           ELSE IF ms[2] \notin DOMAIN IntOf THEN Raise(st, "ValueError")
           ELSE Ok(Push([st EXCEPT !.stream = TRUE], "CLIENT_STREAM_MODE_ENTER"))
    ELSE Ok(st)

\* read of each loop: the handler chosen by the loop's class, its conn_type
\* and the socket the message came on.
Handle(loop, from, ms, st) ==
    CASE loop = "PRIME_THREAD" -> PrimeThreadRead(ms, st)
      [] loop = "AUTH_THREAD_CLIENT" -> AuthHandleClient(ms, st)
      [] loop = "AUTH_THREAD_CONTENT" -> AuthHandleContent(ms, st)
      [] loop = "CONTENT_THREAD" /\ from = "CLIENT" -> ContentHandleClient(ms, st)
      [] loop = "CONTENT_THREAD" /\ from = "AUTH" -> ContentHandleAuth(ms, st)
      [] loop = "CONTENT" -> ContentNodeRead(ms, st)
      [] loop = "CLIENT" /\ from = "PRIME" -> handle_prime(ms, st)
      [] loop = "CLIENT" /\ from = "AUTH" -> handle_auth(ms, st)
      [] loop = "CLIENT" /\ from = "CONTENT" -> handle_content(ms, st)

\* The sockets a loop reads.
Sources(loop) ==
    CASE loop = "PRIME_THREAD" -> {"PEER"}
      [] loop = "AUTH_THREAD_CLIENT" -> {"CLIENT"}
      [] loop = "AUTH_THREAD_CONTENT" -> {"CONTENT"}
      [] loop = "CONTENT_THREAD" -> {"CLIENT", "AUTH"}
      [] loop = "CONTENT" -> {"PRIME"}
      [] loop = "CLIENT" -> {"PRIME", "AUTH", "CONTENT"}

\* The opcodes each handler names.
Opcodes(loop, from) ==
    CASE loop = "PRIME_THREAD" -> {"NODE_LOAD_UPDATED", "NODE_REQUEST"}
      [] loop = "AUTH_THREAD_CLIENT" -> {"LOGIN_DATA", "DISCONNECT"}
      [] loop = "AUTH_THREAD_CONTENT" -> {"AUTH_COOKIE", "DISCONNECT"}
      [] loop = "CONTENT_THREAD" /\ from = "CLIENT" ->
             {"CLIENT_COOKIE", "FILE_REQUEST", "FILE_NAME", "CLIENT_STREAM_MODE_ENTER",
              "CLIENT_STREAM_MODE_LEAVE", "DISCONNECT"}
      [] loop = "CONTENT_THREAD" /\ from = "AUTH" ->
             {"COOKIE_CHECK", "COOKIE_VALID", "COOKIE_INVALID"}
      [] loop = "CONTENT" -> {"NODE_FIND_SUCCESS"}
      [] loop = "CLIENT" /\ from = "PRIME" -> {"NODE_FIND_SUCCESS"}
      [] loop = "CLIENT" /\ from = "AUTH" -> {"LOGIN_REQUEST", "LOGIN_SUCCESS", "LOGIN_FAIL"}
      [] loop = "CLIENT" /\ from = "CONTENT" ->
             {"COOKIE_REQUEST", "CHECKING_COOKIE", "COOKIE_CHECK_SUCCESS",
              "COOKIE_CHECK_FAIL", "FILES_AVAILABLE", "NO_FILES_AVAILABLE",
              "FILE_NAME_INVALID", "STREAM_MODE_ENTER"}

\* Messages as the peers of the protocol send them.
WellFormed ==
    {<<"NODE_LOAD_UPDATED", "2">>, <<"NODE_REQUEST", "CLIENT", "AUTH">>,
     <<"LOGIN_DATA", "a b">>, <<"AUTH_COOKIE", "c1">>, <<"CLIENT_COOKIE", "c1">>,
     <<"FILE_NAME", "song">>, <<"COOKIE_VALID">>,
     <<"NODE_FIND_SUCCESS", "CONTENT", "AUTH", "127.0.0.1", "5000">>,
     <<"NODE_FIND_SUCCESS", "CLIENT", "AUTH", "127.0.0.1", "5000">>,
     <<"LOGIN_SUCCESS", "c1">>, <<"COOKIE_CHECK_SUCCESS">>}
\* Messages whose opcode no handler names, of one, two and three fields.
Unrecognised == {<<"FOO">>, <<"FOO", "CLIENT">>, <<"FOO", "CONTENT", "x">>}
\* Named opcodes with fields missing or not an integer.
Malformed ==
    {<<"NODE_LOAD_UPDATED">>, <<"NODE_LOAD_UPDATED", "x">>, <<"NODE_REQUEST">>,
     <<"NODE_REQUEST", "CLIENT">>, <<"CLIENT_COOKIE">>, <<"AUTH_COOKIE">>,
     <<"FILE_NAME">>}

\* read(key) with a message: the handler runs; an exception it raises is
\* none of those run catches, so it leaves run, whose `finally` unregisters a
\* connection thread; a handler that called kill_connection ends the loop at
\* its next iteration.
Deliver(loop, from, ms) ==
    /\ h_run[loop] = "running"
    /\ h_count < MaxDeliveries
    /\ LET r == Handle(loop, from, ms, h_st[loop])
       IN /\ h_st' = [h_st EXCEPT ![loop] =
                         IF r.exc # "none" /\ loop \in ThreadLoops
                           THEN [r.st EXCEPT !.registered = FALSE]
                           ELSE r.st]
          /\ h_run' = [h_run EXCEPT ![loop] =
                         IF r.exc # "none" THEN r.exc
                         ELSE IF ~r.st.running THEN "returned"
                         ELSE "running"]
    /\ h_count' = h_count + 1
    /\ h_last' = <<loop, from, ms>>

InitFields ==
    /\ h_st = [l \in Loops |-> St0]
    /\ h_run = [l \in Loops |-> "running"]
    /\ h_count = 0
    /\ h_last = << >>
    /\ IdleFields

NextFields ==
    /\ \E loop \in Loops : \E from \in Sources(loop) :
           \E ms \in WellFormed \cup Unrecognised \cup Malformed :
               Deliver(loop, from, ms)
    /\ UNCHANGED frameFields

SpecFields == InitFields /\ [][NextFields]_vars

\* The step gives a message to a read handler.
Delivers == h_count' = h_count + 1
\* The loop that was given the last message, before and after.
Given == h_last'[1]

\* C29: a message whose opcode the handler does not name, of any number of
\* fields, changes nothing of the role that received it: its state and its
\* queue stay as they were and its event loop keeps running.
C29_UnknownOpcodeIsNoOp ==
    [][(Delivers /\ h_last'[3] \in Unrecognised) =>
          /\ h_st'[Given] = h_st[Given]
          /\ h_run'[Given] = "running"]_vars

\* C30: a message with a named opcode and a malformed field list leaves the
\* event loop running, the connection registered and the state as it was.
C30_MalformedIsRejected ==
    [][(Delivers /\ h_last'[3] \in Malformed
          /\ h_last'[3][1] \in Opcodes(h_last'[1], h_last'[2])) =>
          /\ h_st'[Given] = h_st[Given]
          /\ h_run'[Given] = "running"]_vars

-----------------------------------------------------------------------------
(* A connection thread of the Auth or Content role that is told to         *)
(* DISCONNECT: the run loop of SpecWrite with the role's registry, in      *)
(* which a second connection thread stays.                                 *)

Leaver == 1     \* the registry entry of the thread whose loop is modelled
Stayer == 2     \* another connection thread of the role

\* NodeThreadManager.update_main_load: the sum of the loads of the
\* registered entries.
update_main_load == SumOver(load, Range(node_threads))

\* The thread's `finally: thread_manager.unregister(self)` when the step
\* leaves run.
UnregisterAtExit ==
    node_threads' = IF run_pc' \in {"exited", "raised"}
                      THEN Removed(node_threads, Leaver)
                      ELSE node_threads

InitLeave ==
    /\ queue = << >>
    /\ sock_closed = FALSE
    /\ mask = {}
    /\ run_pc = "select"
    /\ pushed = << >>
    /\ written = << >>
    /\ wh_running = TRUE
    /\ node_threads = <<Leaver, Stayer>>
    /\ load \in [{Leaver, Stayer} -> ThreadLoads]
    /\ lock = 0
    /\ conn_type = << >>
    /\ conn_addr = << >>
    /\ pc = << >>
    /\ lbArg = << >>
    /\ lbNode = << >>
    /\ lbTmp = << >>
    /\ lbSnap = << >>
    /\ retLog = NotKept
    /\ load0 = << >>
    /\ IdleLeave

NextLeave ==
    /\ \/ /\ \/ \E m \in Readiness : Select(m)
             \/ \E m \in Replies : ReadPush(m)
             \/ ReadKill
             \/ ReadNothing
          /\ UNCHANGED node_threads
       \/ /\ ReadClose
          /\ node_threads' = Removed(node_threads, Leaver)
       \/ /\ \/ LoopEnds
             \/ WriteRun
             \/ WriteSkip
          /\ UnregisterAtExit
    /\ UNCHANGED frameLeave

SpecLeave == InitLeave /\ [][NextLeave]_vars
\* The thread is scheduled while it has a step to take.
FairLeave == SpecLeave /\ WF_vars(NextLeave)

\* C31: once a connection thread has processed DISCONNECT (its running flag
\* is false) its loop exits without beginning another iteration, and when
\* it has exited the thread is out of the registry and the role's aggregate
\* load is the load of the threads that remain.
C31_DisconnectEndsConnection ==
    /\ ~wh_running ~> (run_pc = "exited" /\ ~InRegistry(Leaver))
    /\ [][~wh_running => run_pc' # "read"]_vars
    /\ [](run_pc \in {"exited", "raised"} =>
            /\ ~InRegistry(Leaver)
            /\ update_main_load = load[Stayer])

\* C31's case: the thread has processed DISCONNECT after sending a reply and
\* its loop has exited, with the other thread still registered.
C31_Witness ==
    /\ ~wh_running
    /\ run_pc = "exited"
    /\ written # << >>
    /\ InRegistry(Stayer)

-----------------------------------------------------------------------------
(* A Content connection between catalog state and stream mode: the         *)
(* client's FILE_REQUEST, FILE_NAME, CLIENT_STREAM_MODE_ENTER and          *)
(* CLIENT_STREAM_MODE_LEAVE in any order, over several directories.        *)

CatalogDirs ==
    {{}, {<<"readme", "txt">>}, {<<"song1", "wav">>},
     {<<"song1", "wav">>, <<"song2", "wav">>}, {<<"song2", "wav">>, <<"readme", "txt">>}}
CatalogRequests == {"song1", "song2", "readme"}

\* A handler that streams the selected file whatever stream_mode is.
ReadStreamAnyMode ==
    /\ content_running
    /\ client_sent < MaxClientMsgs
    /\ client_sent' = client_sent + 1
    /\ to_client' = Append(to_client, <<"FRAMES", file_to_stream>>)
    /\ UNCHANGED <<client_cookie, auth_sock, selector_socks, stream_mode, file_to_stream,
                   content_load, content_out, content_running, to_auth, from_auth,
                   presented, music_dir, authVars>>

\* handle_client with CLIENT_STREAM_MODE_ENTER or CLIENT_STREAM_MODE_LEAVE
\* while stream_mode is false: the `elif ... and self.stream_mode` tests
\* fail, the message is no DISCONNECT, and `else: pass` is reached.
ReadStreamIgnored ==
    /\ content_running
    /\ client_sent < MaxClientMsgs
    /\ ~stream_mode
    /\ client_sent' = client_sent + 1
    /\ UNCHANGED <<client_cookie, auth_sock, selector_socks, stream_mode, file_to_stream,
                   content_load, content_out, content_running, to_client, to_auth,
                   from_auth, presented, music_dir, authVars>>

\* ContentNodeThread.read on the client socket: handle_client(messages).
CatalogRead(ms) ==
    /\ CASE ms[1] = "FILE_REQUEST" -> ReadFileRequest
         [] ms[1] = "FILE_NAME" -> ReadFileName(ms[2])
         [] ms[1] = "CLIENT_STREAM_MODE_ENTER" ->
                IF stream_mode THEN ReadStreamEnter ELSE ReadStreamIgnored
         [] ms[1] = "CLIENT_STREAM_MODE_LEAVE" ->
                IF stream_mode THEN ReadStreamLeave ELSE ReadStreamIgnored
    /\ cat_last' = ms

CatalogMessages ==
    {<<"FILE_REQUEST">>, <<"CLIENT_STREAM_MODE_ENTER">>, <<"CLIENT_STREAM_MODE_LEAVE">>}
        \cup {<<"FILE_NAME", n>> : n \in CatalogRequests}

\* The connection in catalog state, or in stream mode with the reply to a
\* FILE_NAME of the catalog queued.
InitCatalog ==
    /\ client_cookies = [i \in 1..MaxLogins |-> i]
    /\ issued = client_cookies
    /\ logins = MaxLogins
    /\ cookie_lock = 0
    /\ apc = [a \in AuthLinks |-> "none"]
    /\ apeer = [a \in AuthLinks |-> "none"]
    /\ new_cookie = [a \in AuthLinks |-> NoCookie]
    /\ auth_out = [a \in AuthLinks |-> << >>]
    /\ client_cookie = NoCookie
    /\ auth_sock = 0
    /\ selector_socks = {}
    /\ music_dir \in CatalogDirs
    /\ \/ /\ stream_mode = FALSE
          /\ file_to_stream = "None"
          /\ content_out = << >>
          /\ cat_last = << >>
       \/ /\ stream_mode = TRUE
          /\ file_to_stream \in music_files(music_dir)
          /\ content_out = <<<<"STREAM_MODE_ENTER", "rate">>>>
          /\ cat_last = <<"FILE_NAME", file_to_stream>>
    /\ content_load = 1
    /\ content_running = TRUE
    /\ to_client = << >>
    /\ to_auth = [a \in AuthLinks |-> << >>]
    /\ from_auth = [a \in AuthLinks |-> << >>]
    /\ presented = {}
    /\ client_sent = 0
    /\ IdleCatalog

NextCatalog ==
    /\ \/ \E ms \in CatalogMessages : CatalogRead(ms)
       \/ ContentWrite(ClientSock) /\ UNCHANGED cat_last
    /\ UNCHANGED frameCatalog

SpecCatalog == InitCatalog /\ [][NextCatalog]_vars

\* The step gives handle_client a message.
CatalogReads == client_sent' = client_sent + 1
\* The messages the step queued.
Queued == SubSeq(content_out', Len(content_out) + 1, Len(content_out'))
\* The step kept what was queued before it.
QueueKept ==
    /\ Len(content_out') >= Len(content_out)
    /\ SubSeq(content_out', 1, Len(content_out)) = content_out

\* C32: FILE_NAME|n read with a directory that holds a streamable file
\* queues exactly one reply: STREAM_MODE_ENTER, with stream mode set and n
\* the selected file, when n is a streamable name of the directory, and
\* FILE_NAME_INVALID, with stream mode and the selected file as they were,
\* when it is not.
C32_FileNameReply ==
    [][(CatalogReads /\ cat_last'[1] = "FILE_NAME" /\ music_files(music_dir) # {}) =>
          /\ QueueKept
          /\ Len(Queued) = 1
          /\ IF \E f \in music_dir : f = <<cat_last'[2], "wav">>
               THEN /\ Queued[1][1] = "STREAM_MODE_ENTER"
                    /\ stream_mode'
                    /\ file_to_stream' = cat_last'[2]
               ELSE /\ Queued[1] = <<"FILE_NAME_INVALID">>
                    /\ stream_mode' = stream_mode
                    /\ file_to_stream' = file_to_stream]_vars

\* C32's case: in stream mode with song2 selected, a name that is not in
\* the catalog has been answered FILE_NAME_INVALID.
C32_Witness ==
    /\ cat_last = <<"FILE_NAME", "readme">>
    /\ \E i \in 1..Len(to_client) : to_client[i] = <<"FILE_NAME_INVALID">>
    /\ stream_mode
    /\ file_to_stream = "song2"

\* The step puts frames on the client socket.
FramesGoOut ==
    \E i \in (Len(to_client) + 1)..Len(to_client') : to_client'[i][1] = "FRAMES"
StreamMessages == {<<"CLIENT_STREAM_MODE_ENTER">>, <<"CLIENT_STREAM_MODE_LEAVE">>}

-----------------------------------------------------------------------------
(* The Client's cookie, under SpecFlow.                                    *)

\* The messages the Client has queued or written and its peers have not
\* read yet.
ClientOutgoing == Range(client_queue) \cup UNION {Range(to_peer[p]) : p \in Peers}

\* C34: NODE_REQUEST|CLIENT|CONTENT is queued by the Client only once it has
\* received LOGIN_SUCCESS, and every CLIENT_COOKIE it queues carries the
\* cookie of the LOGIN_SUCCESS it received, which is the one Auth issued and
\* not the unset value.
C34_PresentsLoginCookie ==
    /\ [](\A msg \in ClientOutgoing :
             (msg[1] = "NODE_REQUEST" /\ msg[3] = "CONTENT") =>
                 "LOGIN_SUCCESS" \in Range(got))
    /\ [](\A msg \in ClientOutgoing :
             msg[1] = "CLIENT_COOKIE" =>
                 /\ "LOGIN_SUCCESS" \in Range(got)
                 /\ msg[2] = login_cookie
                 /\ msg[2] = IssuedCookie)
    /\ [][login_cookie' # login_cookie =>
            /\ got' = Append(got, "LOGIN_SUCCESS")
            /\ login_cookie' = IssuedCookie]_vars

\* C34's case: the Client has written CLIENT_COOKIE with its cookie to the
\* Content socket.
C34_Witness ==
    \E i \in 1..Len(to_peer["CONTENT"]) :
        to_peer["CONTENT"][i] = <<"CLIENT_COOKIE", IssuedCookie>>

-----------------------------------------------------------------------------
(* The load of a Content connection, under SpecContent.                    *)

\* No validation link to Auth is open: the connection holds no Auth socket
\* and every socket it opened leads to an Auth thread that has closed.
NoLinkOpen == auth_sock = 0 /\ \A a \in selector_socks : apc[a] = "closed"

\* C35: whenever no validation link to Auth is open the load of the Content
\* connection is its base value 1, whatever CLIENT_COOKIE messages were read
\* and also when the connect to Auth failed.
C35_LoadIsBasePlusLinks == NoLinkOpen => content_load = 1

-----------------------------------------------------------------------------
(* SpecRace: every accepted connection is a client's, the registry holds   *)
(* no entry of a service role, and each connection thread has read a       *)
(* NODE_REQUEST for the same role and is about to call load_balancer.      *)

InitRace ==
    /\ node_threads = [t \in ConnIds |-> t]
    /\ conn_type = [e \in CoordIds |-> IF e \in ConnIds THEN "CLIENT" ELSE NoneV]
    /\ conn_addr = [e \in CoordIds |-> <<NoneV, NoneV>>]
    /\ load = [e \in CoordIds |-> IF e \in ConnIds THEN 1 ELSE 0]
    /\ lock = 0
    /\ pc = [t \in ConnIds |-> "lb_call"]
    /\ \E want \in {"AUTH", "CONTENT"} :
          /\ lbArg = [t \in ConnIds |-> want]
          /\ messages = [t \in ConnIds |-> <<"NODE_REQUEST", "CLIENT", want>>]
    /\ lbNode = [t \in ConnIds |-> NoNode]
    /\ lbTmp = [t \in ConnIds |-> 0]
    /\ lbSnap = [t \in ConnIds |-> << >>]
    /\ retLog = NotKept
    /\ load0 = load
    /\ out_buffer = [t \in ConnIds |-> << >>]
    /\ running = [t \in ConnIds |-> TRUE]
    /\ new_node = [t \in ConnIds |-> 0]
    /\ nodeState = [n \in NodeIds |-> "none"]
    /\ requests = MaxConns
    /\ spawns = [t \in ConnIds |-> 0]
    /\ OtherUnused

NextRace ==
    \/ \E t \in ConnIds :
        \/ LbAcquire(t)
        \/ LbSelect(t)
        \/ LbRead(t)
        \/ LbWrite(t)
        \/ LbRelease(t)
        \/ NodeFound(t)
        \/ SpawnRegister(t)
        \/ SpawnStart(t)
    \/ \E n \in NodeIds : NodeBind(n)

SpecRace == InitRace /\ [][NextRace]_vars

\* The node objects handle_node_request has built for role r.
SpawnedOf(r) == {n \in NodeIds : nodeState[n] # "none" /\ conn_type[n] = r}

\* C36: whatever the interleaving of the connection threads that handle
\* NODE_REQUEST for the same role while the registry has no entry of it, at
\* most one instance of the role is spawned, and every NODE_FIND_SUCCESS for
\* the role names that one instance.
C36_OneSpawnPerRole ==
    \A r \in {"AUTH", "CONTENT"} :
        /\ Cardinality(SpawnedOf(r)) <= 1
        /\ \A t \in ConnIds :
              (pc[t] = "lb_done" /\ lbArg[t] = r /\ lbNode[t] # NoNode) =>
                  SpawnedOf(r) = {lbNode[t]}

-----------------------------------------------------------------------------
(* The main loop of a listening role (BootstrapNode.run, AuthNode.run,     *)
(* ContentNode.run) with accept_wrapper, and peers that connect and then   *)
(* send their handshake, close, or do neither.                             *)

AccPeers == 1..NumPeers

\* A peer connects: the listening socket becomes readable.
PeerConnects(p) ==
    /\ acc_peer[p] = "none"
    /\ acc_peer' = [acc_peer EXCEPT ![p] = "connected"]
    /\ acc_backlog' = Append(acc_backlog, p)
    /\ UNCHANGED <<acc_pc, acc_conn, acc_recv, acc_threads>>

\* connect_to_node of the peer sends the handshake message.
PeerSendsHandshake(p) ==
    /\ acc_peer[p] = "connected"
    /\ acc_peer' = [acc_peer EXCEPT ![p] = "sent"]
    /\ UNCHANGED <<acc_backlog, acc_pc, acc_conn, acc_recv, acc_threads>>

\* The peer closes its socket having sent nothing.
PeerCloses(p) ==
    /\ acc_peer[p] = "connected"
    /\ acc_peer' = [acc_peer EXCEPT ![p] = "closed"]
    /\ UNCHANGED <<acc_backlog, acc_pc, acc_conn, acc_recv, acc_threads>>

\* run: selector.select returns the listening socket (key.data is None);
\* accept_wrapper: conn, addr = sock.accept(); conn.setblocking(False).
AcceptConn ==
    /\ acc_pc = "select"
    /\ acc_backlog # << >>
    /\ acc_conn' = Head(acc_backlog)
    /\ acc_backlog' = Tail(acc_backlog)
    /\ acc_pc' = "recv"
    /\ acc_recv' = "none"
    /\ UNCHANGED <<acc_peer, acc_threads>>

\* conn.recv(1024) on the non-blocking socket: the handshake when it has
\* arrived, b'' when the peer has closed, BlockingIOError otherwise.
RecvResult(peer) ==
    IF peer = "sent" THEN "data" ELSE IF peer = "closed" THEN "empty" ELSE "blocked"

\* accept_wrapper, one iteration of `while True`: a non-empty message breaks
\* the loop and run starts the connection thread; an empty one and
\* BlockingIOError go round again.
AcceptRecv ==
    /\ acc_pc = "recv"
    /\ acc_recv' = RecvResult(acc_peer[acc_conn])
    /\ IF RecvResult(acc_peer[acc_conn]) = "data"
         THEN /\ acc_threads' = acc_threads \cup {acc_conn}
              /\ acc_conn' = 0
              /\ acc_pc' = "select"
         ELSE UNCHANGED <<acc_threads, acc_conn, acc_pc>>
    /\ UNCHANGED <<acc_peer, acc_backlog>>

InitAccept ==
    /\ acc_peer = [p \in AccPeers |-> "none"]
    /\ acc_backlog = << >>
    /\ acc_pc = "select"
    /\ acc_conn = 0
    /\ acc_recv = "none"
    /\ acc_threads = {}
    /\ IdleAccept

NextAccept ==
    /\ \/ \E p \in AccPeers : PeerConnects(p)
       \/ \E p \in AccPeers : PeerSendsHandshake(p)
       \/ \E p \in AccPeers : PeerCloses(p)
       \/ AcceptConn
       \/ AcceptRecv
    /\ UNCHANGED frameAccept

SpecAccept == InitAccept /\ [][NextAccept]_vars

\* The listener's thread keeps running; nothing makes a peer send.
FairAccept ==
    SpecAccept /\ WF_vars(AcceptConn /\ UNCHANGED frameAccept)
               /\ WF_vars(AcceptRecv /\ UNCHANGED frameAccept)

\* C37: accept_wrapper always returns to the main loop, and a peer whose
\* handshake has been sent gets its connection thread, whatever the peers
\* that connected before it do: send, close, or stay silent.
C37_AcceptTerminates ==
    /\ (acc_pc = "recv") ~> (acc_pc = "select")
    /\ \A q \in AccPeers : (acc_peer[q] = "sent") ~> (q \in acc_threads)

-----------------------------------------------------------------------------
(* SpecLink: the Content connection of SpecContent with its entry in the   *)
(* Content role's registry, and the socket of a validation link read after *)
(* Auth's end of it has closed.                                            *)

\* ContentNodeThread.read on the socket to Auth connection a when its peer
\* has ended and closed: recv returns no bytes, and the branch unregisters
\* the thread, unregisters the socket from the selector and closes it.
\* self.auth_sock is not assigned.
ContentReadAuthZero(a) ==
    /\ content_running
    /\ a \in selector_socks
    /\ apc[a] = "closed"
    /\ from_auth[a] = << >>
    /\ content_registered' = FALSE
    /\ selector_socks' = selector_socks \ {a}
    /\ UNCHANGED <<client_cookie, auth_sock, stream_mode, file_to_stream, content_load,
                   content_out, content_running, to_client, to_auth, from_auth,
                   presented, client_sent, music_dir, authVars>>

\* ContentNodeThread.run after kill_connection: the loop ends and `finally`
\* unregisters the thread.
ContentThreadExit ==
    /\ ~content_running
    /\ content_registered
    /\ content_registered' = FALSE
    /\ UNCHANGED <<contentVars, authVars>>

\* ContentNodeThread.__init__ has registered the thread; run has queued
\* COOKIE_REQUEST.
InitLink ==
    /\ client_cookies = [i \in 1..MaxLogins |-> i]
    /\ issued = client_cookies
    /\ logins = MaxLogins
    /\ cookie_lock = 0
    /\ apc = [a \in AuthLinks |-> "none"]
    /\ apeer = [a \in AuthLinks |-> "none"]
    /\ new_cookie = [a \in AuthLinks |-> NoCookie]
    /\ auth_out = [a \in AuthLinks |-> << >>]
    /\ client_cookie = NoCookie
    /\ auth_sock = 0
    /\ selector_socks = {}
    /\ stream_mode = FALSE
    /\ file_to_stream = "None"
    /\ content_load = 1
    /\ content_out = <<<<"COOKIE_REQUEST">>>>
    /\ content_running = TRUE
    /\ to_client = << >>
    /\ to_auth = [a \in AuthLinks |-> << >>]
    /\ from_auth = [a \in AuthLinks |-> << >>]
    /\ presented = {}
    /\ client_sent = 0
    /\ music_dir \in MusicDirs
    /\ content_registered = TRUE
    /\ IdleLink

NextLink ==
    \/ NextContent
    \/ /\ \/ \E a \in AuthLinks : ContentReadAuthZero(a)
          \/ ContentThreadExit
       /\ UNCHANGED frameLink

SpecLink == InitLink /\ [][NextLink]_vars

\* C38: while the loop of a Content client connection runs (its client
\* socket is open throughout), the connection is in the Content registry and
\* so counted in the aggregate load; Auth closing a validation socket does
\* not unregister it.
C38_RegisteredWhileRunning == content_running => content_registered

-----------------------------------------------------------------------------
(* SpecCoalesce: the Content connection sends control messages on the      *)
(* client socket, one send each; ClientNode.read receives what has         *)
(* arrived with one recv(1024), splits it on '|' and calls handle_content. *)

\* Messages ContentNodeThread queues for the client while it validates the
\* cookie and answers a file name.
ControlMessages ==
    {<<"CHECKING_COOKIE">>, <<"COOKIE_CHECK_SUCCESS">>, <<"STREAM_MODE_ENTER", "44100">>}

\* The opcodes handle_content has a branch for.
ContentOpcodes ==
    {"COOKIE_REQUEST", "CHECKING_COOKIE", "COOKIE_CHECK_SUCCESS", "COOKIE_CHECK_FAIL",
     "FILES_AVAILABLE", "NO_FILES_AVAILABLE", "FILE_NAME_INVALID", "STREAM_MODE_ENTER"}

\* NodeWriteHandler.write: key.fileobj.send(message.encode()), the text of
\* the message with nothing before or after it.
CoSend(m) ==
    /\ Len(co_sent) < MaxSends
    /\ co_sent' = Append(co_sent, m)
    /\ co_wire' = co_wire \o Join(m)
    /\ UNCHANGED co_dispatched

\* ClientNode.read: recv_data = recv(1024).decode() is all the text that has
\* arrived; messages = recv_data.split('|'); handle_content compares
\* messages[0] with each opcode and passes when none is equal.
CoRecv ==
    /\ co_wire # << >>
    /\ co_wire' = << >>
    /\ co_dispatched' = IF Split(co_wire)[1] \in {<<op>> : op \in ContentOpcodes}
                          THEN Append(co_dispatched, Split(co_wire))
                          ELSE co_dispatched
    /\ UNCHANGED co_sent

InitCoalesce ==
    /\ co_sent = << >>
    /\ co_wire = << >>
    /\ co_dispatched = << >>
    /\ IdleCoalesce

NextCoalesce ==
    /\ \/ \E m \in ControlMessages : CoSend(m)
       \/ CoRecv
    /\ UNCHANGED frameCoalesce

SpecCoalesce == InitCoalesce /\ [][NextCoalesce]_vars

\* C39: once everything sent has been received, every control message sent
\* has been dispatched, each as its own message with its own fields, in the
\* order sent; also when one recv returned two of them together.
C39_EachMessageDispatched ==
    co_wire = << >> =>
        /\ Len(co_dispatched) = Len(co_sent)
        /\ \A i \in 1..Len(co_sent) : co_dispatched[i] = Split(Join(co_sent[i]))

-----------------------------------------------------------------------------
(* The entries of a service instance in the Coordinator's registry, under  *)
(* SpecCoord.                                                              *)

\* The registry entries of node n's role that carry node n's address, the
\* ones load_balancer selects among when it hands out that address.
EntriesOf(n) ==
    {e \in Range(node_threads) :
        conn_type[e] = conn_type[n] /\ conn_addr[e] = conn_addr[n]}

\* C40: every service instance that has bound and connected to the
\* Coordinator is represented in the registry by exactly one entry of its
\* role, the entry a selection reads and a load report updates.
C40_OneEntryPerInstance ==
    \A n \in NodeIds :
        nodeState[n] = "connected" => Cardinality(EntriesOf(n)) = 1

=============================================================================
